---- MODULE Spec2Model ----
(***************************************************************************)
(* The concurrent download-and-record pipeline of civitai_scraper.py:      *)
(* CivitaiScraper._download_batch fans one page of items out to a thread   *)
(* pool; each task runs download_image (optionally wrapped by              *)
(* _download_with_retry) against a shared output directory, the SQLite     *)
(* ledger (db_lock) and the counters (stats_lock).                         *)
(*                                                                         *)
(* Scope: use_database = True (the default).  The program imports msvcrt   *)
(* (civitai_scraper.py:14), so the file operations follow Windows          *)
(* semantics: a file that another handle holds open can be neither removed *)
(* nor renamed, and os.rename fails when the destination exists.           *)
(*                                                                         *)
(* Beside the pipeline (Spec, SpecRetry, SpecFaulty) the module holds the   *)
(* page loop of scrape() (SpecScrape, SpecUndisturbed, SpecNoResume,        *)
(* SpecAnyTarget), the rating normalization (SpecRating),                   *)
(* _detect_image_format on the bytes of a chunk (SpecSniff), the statements *)
(* of _init_database (SpecSchema), the page filters of scrape()             *)
(* (SpecFilter), the download sessions of web_interface.py (SpecWeb) and    *)
(* the ledger operations of the front-end, the backfill loops and           *)
(* clear_history.py beside one download (SpecLedger).                       *)
(***************************************************************************)
EXTENDS Integers, Sequences, FiniteSets, TLC

\* ------------------------------------------------------------------ bounds
NumItems == 2
MaxId == 2
MaxWorkers == 2
PayloadChunks == 1
MaxRetries == 1
MaxRetriesSequential == 3
MaxRuns == 2
MaxPageSize == 2          \* stands for the API's page cap (200, scrape line 1683)
MaxListing == 3           \* items in the remote listing
MaxTarget == 2            \* max_images in limited mode
MaxLevelInput == 8        \* numeric nsfwLevel values 0..MaxLevelInput
MaxDbFaults == 1          \* ledger writes that fail in one execution
MaxOpens == 2             \* times the ledger file is opened
MaxReactions == 1         \* largest reaction total of a row
MaxSide == 4              \* numeric width and height values, and min_resolution
MaxSessions == 2          \* download sessions the web front-end starts

\* -------------------------------------------------------- program constants
BackoffFactor == 2

VARIABLES
    cfg,                 \* constructor / CLI settings of the scraper
    items,               \* the page handed to _download_batch (image ids)
    run,                 \* 1 for the first run, 2 for the re-run, ...
    prevAllDownloaded,   \* history: every task of the previous run ended "downloaded"
    fetches,             \* history: payload GET requests issued by this scraper
    downloads,           \* ledger table downloads (set of rows)
    metadata_tbl,        \* ledger table metadata (image ids with a json blob)
    generation_params,   \* ledger table generation_params (image ids)
    image_tags,          \* ledger table image_tags (image ids with tag links)
    dbClock,             \* datetime.now() as seen by the ledger, a logical clock
    db_faults,           \* ledger writes that will still raise sqlite3.Error
    tempFile,            \* output_dir/temp_civitai_<id>.tmp, per image id
    finalFile,           \* the file at the final path of an image id
    metaFile,            \* image ids with a companion metadata json file
    downloaded_count, skipped_count, failed_count, filtered_type_count,
    running, paused,
    mainPc,              \* position of the thread that runs _download_batch
    collected,           \* futures already taken from as_completed
    cur,                 \* the future the as_completed loop holds (0: none)
    successful,          \* local counter of _download_batch
    pc,                  \* per task: position in download_image
    attempt,             \* per task: loop variable of _download_with_retry
    hpos,                \* per task: chunks written through its file handle
    via,                 \* per task: which path reached _log_download_db
    size,                \* per task: file_size = filepath.stat().st_size
    exc,                 \* per task: the exception being handled
    sleeps,              \* per task: history of time.sleep durations
    last_error,          \* per task: last_error of _download_with_retry
    lastStatus,          \* per task: history, status of the latest download_image call
    failures,            \* per task: history, download_image calls that ended in failure
    fetched,             \* per task: history, how the latest payload fetch went
    result,              \* per task: the future's result
    opts,                \* arguments of scrape() and enable_signal_handler
    listing,             \* the remote listing, in the order the API pages it
    drv,                 \* position of the thread that runs scrape()
    cursor,              \* local cursor of scrape() (0: None)
    nextCursor,          \* data['metadata'].get('nextCursor') of the page in hand (0: absent)
    request,             \* history: the latest page request (flip alternates per
                         \* request, ok: fetch_images got a response without error)
    pending,             \* exception unwinding the thread that runs scrape()
    exit,                \* history: how the page loop of scrape() was left
    summary,             \* history: FINAL STATISTICS has been printed
    item,                \* an item descriptor of the API: its nsfwLevel, nsfw, payload kind
    ropts,               \* organize_by_nsfw and save_metadata
    rpc,                 \* how far the descriptor has gone through the pipeline
    metadata,            \* the metadata dict _download_batch builds for the item
    conv,                \* argument and result of a call of _convert_nsfw_to_level
    filepath,            \* tree and folder of the final path download_image computes
    nsfw_level,          \* the nsfw_level column _log_download_db writes
    first_chunk,         \* the first chunk handed to _detect_image_format
    detected,            \* what _detect_image_format returned for it
    schema,              \* the ledger file: table downloads, its later columns, its indexes
    reaction,            \* a row of downloads: its reaction_total and the total its
                         \* metadata blob gives (-1: the row has no metadata blob)
    init_db,             \* _init_database: next statement, outcome, completed opens,
                         \* history: schema and row as the first open left them
    page_item,           \* an item of a fetched page: width, height, nsfwLevel, nsfw
    filters,             \* nsfw_only and min_resolution of scrape()
    verdict,             \* how far the page filters got with the item, and whether
                         \* it is still in items
    download_status,     \* web front-end: the global download_status (its 'running' key)
    scraper,             \* web front-end: the global scraper (0: the browsing scraper
                         \* of init_scraper, s: temp_scraper of session s)
    threads,             \* per session: position of run_download_task and its old_scraper
    scrapers,            \* per scraper object: whether it is constructed, and its running flag
    stop_seen,           \* history: sessions that were in progress when a stop was accepted
    favorites,           \* ledger table favorites (image ids)
    tag_result           \* per image id: history, how its latest tag request went

drvVars  == <<opts, listing, drv, cursor, nextCursor, request, pending, exit, summary>>
ratingVars == <<item, ropts, rpc, metadata, conv, filepath, nsfw_level>>
sniffVars == <<first_chunk, detected>>
schemaVars == <<schema, reaction, init_db>>
filterVars == <<page_item, filters, verdict>>
webVars == <<download_status, scraper, threads, scrapers, stop_seen>>
ledgerVars == <<favorites, tag_result>>
extVars == <<webVars, ledgerVars>>
auxVars  == <<sniffVars, schemaVars, filterVars, extVars>>
baseVars == <<cfg, items, run, prevAllDownloaded, drvVars, ratingVars>>
envVars  == <<baseVars, auxVars>>
dbVars   == <<downloads, metadata_tbl, generation_params, image_tags, dbClock, db_faults>>
fsVars   == <<tempFile, finalFile, metaFile>>
ctrVars  == <<downloaded_count, skipped_count, failed_count, filtered_type_count>>
mainVars == <<mainPc, collected, cur, successful>>
flagVars == <<running, paused>>
localVars == <<hpos, via, size, exc>>
retryVars == <<attempt, sleeps, last_error, lastStatus, failures, result>>
taskVars == <<pc, localVars, retryVars>>
pipelineVars == <<fetches, dbVars, fsVars, ctrVars, mainVars, flagVars, taskVars, fetched>>
vars == <<envVars, pipelineVars>>

\* ------------------------------------------------------------ the remote items
Ids == 1..MaxId
Chunks == 1..PayloadChunks
Tasks == 1..Len(items)
IdOf(t) == items[t]

\* The first 12 bytes of a chunk, cut at the offsets the signatures use:
\* bytes [0:3], [3:4], [4:6], [6:8] and [8:12].  A shorter chunk has fewer groups.
\* "zz" groups are bytes that belong to no signature.
Jpeg == <<"FFD8FF", "zz", "zz", "zz", "zz">>
Png == <<"89504E", "47", "0D0A", "1A0A", "zz">>
Mp4 == <<"zz", "zz", "ft", "yp", "mp42">>

\* The leading bytes of the payload served for an image.
Signatures == <<Jpeg, Png, Mp4>>
Signature(id) == Signatures[((id - 1) % Len(Signatures)) + 1]

\* item.get('meta') and item.get('tags') of the listing entry: odd ids carry both.
ItemHasMeta(id) == id % 2 = 1
ItemHasTags(id) == id % 2 = 1

\* ------------------------------------------------------------ pure functions
\* data[m:n] in groups m+1..n: a slice never raises, it is cut at the end of data.
Slice(data, m, n) == SubSeq(data, m + 1, IF n < Len(data) THEN n ELSE Len(data))

\* data.startswith(prefix)
StartsWith(data, prefix) == Slice(data, 0, Len(prefix)) = prefix

\* b'WEBP' in data[:12]: the fourCC at bytes [8:12] or at bytes [4:8].
HasWebpFourCC(data) ==
    \/ Slice(data, 4, 5) = <<"WEBP">>
    \/ Slice(data, 2, 4) = <<"WE", "BP">>

\* Mutant of _detect_image_format: the image signatures are tried before the video ones.
DetectImageFormat_ImagesFirst(data) ==
    IF StartsWith(data, <<"89504E", "47", "0D0A", "1A0A">>)
      THEN [ext |-> "png", is_video |-> FALSE]
    ELSE IF StartsWith(data, <<"FFD8FF">>) THEN [ext |-> "jpg", is_video |-> FALSE]
    ELSE IF StartsWith(data, <<"RIF", "F">>) /\ HasWebpFourCC(data)
      THEN [ext |-> "webp", is_video |-> FALSE]
    ELSE IF StartsWith(data, <<"GIF", "8", "7a">>) \/ StartsWith(data, <<"GIF", "8", "9a">>)
      THEN [ext |-> "gif", is_video |-> FALSE]
    ELSE IF Slice(data, 2, 5) \in {<<"ft", "yp", "mp42">>, <<"ft", "yp", "isom">>}
      THEN [ext |-> "mp4", is_video |-> TRUE]
    ELSE IF Slice(data, 0, 2) = <<"1A45DF", "A3">> THEN [ext |-> "webm", is_video |-> TRUE]
    ELSE IF Slice(data, 0, 1) = <<"FLV">> THEN [ext |-> "flv", is_video |-> TRUE]
    ELSE [ext |-> "jpg", is_video |-> FALSE]

\* _detect_image_format: first matching rule wins, '.jpg' is the fallback.
DetectImageFormat(data) ==
    IF Slice(data, 2, 5) \in {<<"ft", "yp", "mp42">>, <<"ft", "yp", "isom">>}
      THEN [ext |-> "mp4", is_video |-> TRUE]
    ELSE IF Slice(data, 0, 2) = <<"1A45DF", "A3">> THEN [ext |-> "webm", is_video |-> TRUE]
    ELSE IF Slice(data, 0, 1) = <<"FLV">> THEN [ext |-> "flv", is_video |-> TRUE]
    ELSE IF StartsWith(data, <<"89504E", "47", "0D0A", "1A0A">>)
      THEN [ext |-> "png", is_video |-> FALSE]
    ELSE IF StartsWith(data, <<"FFD8FF">>) THEN [ext |-> "jpg", is_video |-> FALSE]
    ELSE IF StartsWith(data, <<"RIF", "F">>) /\ HasWebpFourCC(data)
      THEN [ext |-> "webp", is_video |-> FALSE]
    ELSE IF StartsWith(data, <<"GIF", "8", "7a">>) \/ StartsWith(data, <<"GIF", "8", "9a">>)
      THEN [ext |-> "gif", is_video |-> FALSE]
    ELSE [ext |-> "jpg", is_video |-> FALSE]

AllowAll == {"*"}
\* download_image: allowed_types is not None and ext_without_dot not in allowed_types
FilteredByType(ext) == cfg.allowed_types # AllowAll /\ ext \notin cfg.allowed_types

\* status.startswith("skipped")
IsSkipped(status) ==
    status \in {"skipped (in database)", "skipped (type)", "skipped (exists)"}

\* An exception that leaves download_image instead of a return value.
IsRaised(status) == status = "raised: UnboundLocalError"

\* ------------------------------------------------------------------ ledger
\* INSERT OR REPLACE names no tags_fetched value: the column takes its default 0.
Row(id, status, error, fsize, ts) ==
    [image_id |-> id, status |-> status, error_message |-> error,
     file_size |-> fsize, download_timestamp |-> ts, tags_fetched |-> FALSE]

RowsOf(id) == {r \in downloads : r.image_id = id}

\* Mutants of _is_downloaded_db: one status of the IN list is forgotten.
IsDownloadedDb_SuccessOnly(id) ==
    \E r \in downloads : r.image_id = id /\ r.status = "success"
IsDownloadedDb_MigratedOnly(id) ==
    \E r \in downloads : r.image_id = id /\ r.status = "migrated"

\* _is_downloaded_db: SELECT 1 FROM downloads WHERE image_id = ? AND status IN (success, migrated)
IsDownloadedDb(id) ==
    \E r \in downloads : r.image_id = id /\ r.status \in {"success", "migrated"}

\* Mutant of the upsert: a plain INSERT into a table without the primary key.
InsertOrReplace_NoKey(rows, r) == rows \cup {r}

\* INSERT OR REPLACE INTO downloads: image_id is the primary key.
InsertOrReplace(rows, r) == {x \in rows : x.image_id # r.image_id} \cup {r}

\* ------------------------------------------------------------------ files
NoFile == [exists |-> FALSE, data |-> {}, open |-> {}]
FullFile == [exists |-> TRUE, data |-> Chunks, open |-> {}]

\* os.remove / os.rename of the temp file succeed only on an existing file no handle holds open.
CanUnlink(f) == f.exists /\ f.open = {}


\* ------------------------------------------------------------- initial state
DefaultMaxRetries == 3
DefaultMaxImages == 100

RetrySettings(maxR) ==
    {[enable_retry |-> FALSE, max_retries |-> DefaultMaxRetries]}
        \cup {[enable_retry |-> TRUE, max_retries |-> n] : n \in 0..maxR}

Configs(maxR) ==
    {[allowed_types |-> a, dry_run |-> d, enable_retry |-> r.enable_retry,
      max_retries |-> r.max_retries, workers |-> w, save_metadata |-> m] :
        a \in {AllowAll, {"png"}}, d \in BOOLEAN, r \in RetrySettings(maxR),
        w \in 1..MaxWorkers, m \in BOOLEAN}

\* What earlier runs left for image 1: nothing, a completed download, an entry
\* migrated from download_log.txt, or a file whose ledger row is missing.
PriorKinds == {"fresh", "success", "migrated", "orphan"}
PriorRows(kind) ==
    IF kind = "success" THEN {Row(1, "success", "none", PayloadChunks, 0)}
    ELSE IF kind = "migrated" THEN {Row(1, "migrated", "none", 0, 0)}
    ELSE {}
PriorFiles(kind) ==
    [id \in Ids |-> IF id = 1 /\ kind \in {"success", "orphan"} THEN FullFile ELSE NoFile]

NoResult == [success |-> FALSE, status |-> "pending", error |-> "none"]

\* A freshly constructed scraper (__init__) about to run _download_batch on a page.
NewScraper ==
    /\ downloaded_count = 0 /\ skipped_count = 0
    /\ failed_count = 0 /\ filtered_type_count = 0
    /\ running = TRUE /\ paused = FALSE
    /\ mainPc = "wait" /\ collected = {} /\ cur = 0 /\ successful = 0
    /\ pc = [t \in Tasks |-> "queued"]
    /\ attempt = [t \in Tasks |-> 0]
    /\ hpos = [t \in Tasks |-> 0]
    /\ via = [t \in Tasks |-> "none"]
    /\ size = [t \in Tasks |-> 0]
    /\ exc = [t \in Tasks |-> "none"]
    /\ sleeps = [t \in Tasks |-> <<>>]
    /\ last_error = [t \in Tasks |-> "None"]
    /\ lastStatus = [t \in Tasks |-> "none"]
    /\ failures = [t \in Tasks |-> 0]
    /\ fetched = [t \in Tasks |-> "none"]
    /\ result = [t \in Tasks |-> NoResult]

\* _download_batch called on its own: scrape() is not on the stack.
NoRequest == [cursor |-> 0, limit |-> 0, flip |-> FALSE, ok |-> TRUE]
NoOptions == [endless |-> FALSE, max_images |-> DefaultMaxImages, min_resolution |-> 0,
              signal_handler |-> TRUE]
NoDriver ==
    /\ opts = NoOptions /\ listing = <<>> /\ drv = "idle"
    /\ cursor = 0 /\ nextCursor = 0 /\ request = NoRequest
    /\ pending = "none" /\ exit = "none" /\ summary = FALSE

\* JSON values of the rating fields: absent or null, a number, a string.
JNone == [kind |-> "none", int |-> 0, str |-> ""]
JInt(n) == [kind |-> "int", int |-> n, str |-> ""]
JStr(x) == [kind |-> "str", int |-> 0, str |-> x]

\* No descriptor is being followed through the rating pipeline.
NoItem == [nsfwLevel |-> JNone, nsfw |-> JNone, is_video |-> FALSE]
NoConv == [raw |-> JNone, level |-> 0, warned |-> FALSE]
NoPath == [tree |-> "none", folder |-> "none"]
Null == [null |-> TRUE, level |-> 0]
\* _detect_image_format has not been called.
NoDetection == [ext |-> "none", is_video |-> FALSE]

\* The columns later versions added to table downloads, and the indexes of the
\* table: those on columns of the CREATE TABLE statement, and those on added columns.
AddedColumns == {"folder_path", "tags_fetched", "reaction_total"}
BaseIndexes == {"idx_status", "idx_timestamp", "idx_nsfw_level", "idx_file_extension"}
AddedIndexes == {"idx_folder_path", "idx_status_reactions", "idx_reaction_total"}

\* A ledger with the current schema; _init_database is not running.
CurrentSchema ==
    [table |-> TRUE, columns |-> AddedColumns, indexes |-> BaseIndexes \cup AddedIndexes]
NoSnapshot == [table |-> FALSE, columns |-> {}, indexes |-> {}, total |-> 0]
NotOpening == [stmt |-> 0, state |-> "idle", opens |-> 0, first |-> NoSnapshot]

NoSniff == first_chunk = <<>> /\ detected = NoDetection
NoSchema ==
    /\ schema = CurrentSchema /\ reaction = [total |-> 0, meta |-> -1]
    /\ init_db = NotOpening

\* No page item is being filtered.
NoFilter ==
    /\ page_item = [width |-> JNone, height |-> JNone, nsfwLevel |-> JNone, nsfw |-> JNone]
    /\ filters = [nsfw_only |-> FALSE, min_resolution |-> 0]
    /\ verdict = [stage |-> "idle", kept |-> TRUE]

\* web_interface.py after init_scraper: the browsing scraper, no download session.
Sessions == 1..MaxSessions
NoThread == [pc |-> "idle", old_scraper |-> 0]
NoWeb ==
    /\ download_status = [running |-> FALSE]
    /\ scraper = 0
    /\ threads = [s \in Sessions |-> NoThread]
    /\ scrapers = [k \in 0..MaxSessions |-> [exists |-> k = 0, running |-> k = 0]]
    /\ stop_seen = {}

\* No favorite has been set and no tag request has been made.
NoLedger == favorites = {} /\ tag_result = [id \in Ids |-> "none"]

NoExt == NoWeb /\ NoLedger

NoAux == NoSniff /\ NoSchema /\ NoFilter /\ NoExt

NoRating ==
    /\ NoAux
    /\ item = NoItem /\ ropts = [organize_by_nsfw |-> TRUE, save_metadata |-> TRUE]
    /\ rpc = "idle" /\ metadata = [present |-> FALSE, nsfwLevel |-> JNone, nsfw |-> JNone]
    /\ conv = NoConv /\ filepath = NoPath /\ nsfw_level = Null

InitWithFaults(configs, batches, faults) ==
    /\ db_faults \in faults
    /\ NoDriver
    /\ NoRating
    /\ cfg \in configs
    /\ items \in batches
    /\ run = 1 /\ prevAllDownloaded = FALSE /\ fetches = 0
    /\ \E kind \in PriorKinds :
          /\ downloads = PriorRows(kind)
          /\ finalFile = PriorFiles(kind)
    /\ metadata_tbl = {} /\ generation_params = {} /\ image_tags = {}
    /\ dbClock = 0
    /\ tempFile = [id \in Ids |-> NoFile]
    /\ metaFile = {}
    /\ NewScraper

\* The same with a ledger whose writes all succeed.
InitWith(configs, batches) == InitWithFaults(configs, batches, {0})

Init == InitWith(Configs(MaxRetries), [1..NumItems -> Ids])


\* ------------------------------------------------------------ retry wrapper
\* Mutant of the backoff: the exponent is the attempt number itself.
WaitTime_OffByOne(n) == BackoffFactor ^ n

\* _download_with_retry: wait_time = backoff_factor ** (attempt - 1)
WaitTime(n) == BackoffFactor ^ (n - 1)

\* _download_with_retry: if success or status.startswith("skipped"): return
ShortCircuits(success, status) == success \/ IsSkipped(status)

\* Mutant of the loop bound: one attempt more than max_retries.
HasNextAttempt_OneMore(n) == n <= cfg.max_retries

\* _download_with_retry: if attempt < max_retries: sleep, then the next iteration
HasNextAttempt(n) == n < cfg.max_retries

Count(d, s, f, ft) ==
    /\ downloaded_count' = downloaded_count + d
    /\ skipped_count' = skipped_count + s
    /\ failed_count' = failed_count + f
    /\ filtered_type_count' = filtered_type_count + ft

ResetLocals(t) ==
    /\ hpos' = [hpos EXCEPT ![t] = 0]
    /\ via' = [via EXCEPT ![t] = "none"]
    /\ size' = [size EXCEPT ![t] = 0]
    /\ exc' = [exc EXCEPT ![t] = "none"]

\* download_image returns (success, status), or raises, to its caller: the pool
\* when retry is disabled, otherwise one iteration of the loop of
\* _download_with_retry, whose except clause treats an exception as a failure
\* with last_error = str(e).
Return(t, success, status) ==
    /\ ResetLocals(t)
    /\ lastStatus' = [lastStatus EXCEPT ![t] = status]
    /\ failures' = [failures EXCEPT ![t] = IF success THEN @ ELSE @ + 1]
    /\ IF ~cfg.enable_retry \/ ShortCircuits(success, status)
         THEN /\ pc' = [pc EXCEPT ![t] = "done"]
              /\ result' = [result EXCEPT ![t] =
                    [success |-> success, status |-> status, error |-> "none"]]
              /\ UNCHANGED <<attempt, sleeps, last_error>>
         ELSE /\ last_error' = [last_error EXCEPT ![t] = status]
              /\ IF HasNextAttempt(attempt[t])
                   THEN /\ sleeps' = [sleeps EXCEPT ![t] = Append(@, WaitTime(attempt[t]))]
                        /\ attempt' = [attempt EXCEPT ![t] = @ + 1]
                        /\ pc' = [pc EXCEPT ![t] = "check"]
                        /\ UNCHANGED result
                   ELSE /\ pc' = [pc EXCEPT ![t] = "done"]
                        /\ result' = [result EXCEPT ![t] =
                              [success |-> FALSE, status |-> "failed after retries",
                               error |-> status]]
                        /\ UNCHANGED <<attempt, sleeps>>

Goto(t, p) == pc' = [pc EXCEPT ![t] = p]

Raise(t, e) ==
    /\ exc' = [exc EXCEPT ![t] = e]
    /\ Goto(t, "except")

\* ------------------------------------------------------------- worker tasks
Busy == {u \in Tasks : pc[u] \notin {"queued", "done"}}

\* A pool thread takes the oldest queued work item (ThreadPoolExecutor, FIFO) and
\* enters _download_with_retry (range(1, max_retries + 1)) or download_image.
StartTask(t) ==
    /\ pc[t] = "queued"
    /\ \A u \in Tasks : u < t => pc[u] # "queued"
    /\ Cardinality(Busy) < cfg.workers
    /\ IF cfg.enable_retry /\ cfg.max_retries < 1
         THEN /\ Goto(t, "done")
              /\ result' = [result EXCEPT ![t] =
                    [success |-> FALSE, status |-> "failed after retries",
                     error |-> last_error[t]]]
              /\ UNCHANGED attempt
         ELSE /\ Goto(t, "check")
              /\ attempt' = [attempt EXCEPT ![t] = 1]
              /\ UNCHANGED result
    /\ UNCHANGED fetched
    /\ UNCHANGED <<envVars, fetches, dbVars, fsVars, ctrVars, mainVars, flagVars,
                   localVars, sleeps, last_error, lastStatus, failures>>

\* Mutant of download_image: the dry-run branch is missing.
CheckDownloaded_NoDryRun(t) ==
    /\ pc[t] = "check"
    /\ IF IsDownloadedDb(IdOf(t))
         THEN Count(0, 1, 0, 0) /\ Return(t, TRUE, "skipped (in database)")
         ELSE Goto(t, "fetch") /\ UNCHANGED <<ctrVars, localVars, retryVars>>
    /\ UNCHANGED fetched
    /\ UNCHANGED <<envVars, fetches, dbVars, fsVars, mainVars, flagVars>>

\* download_image, lines 1293-1319: the duplicate check and the dry-run branch.
CheckDownloaded(t) ==
    /\ pc[t] = "check"
    /\ IF IsDownloadedDb(IdOf(t))
         THEN Count(0, 1, 0, 0) /\ Return(t, TRUE, "skipped (in database)")
         ELSE IF cfg.dry_run
           THEN Count(1, 0, 0, 0) /\ Return(t, TRUE, "simulated")
           ELSE Goto(t, "fetch") /\ UNCHANGED <<ctrVars, localVars, retryVars>>
    /\ UNCHANGED fetched
    /\ UNCHANGED <<envVars, fetches, dbVars, fsVars, mainVars, flagVars>>

\* download_image, lines 1326-1331: session.get + raise_for_status, then
\* open(temp_filepath, 'wb'), which creates or truncates the shared temp file.
Fetch(t) ==
    /\ pc[t] = "fetch"
    /\ fetches' = fetches + 1
    /\ \E ok \in BOOLEAN :
          IF ok
            THEN /\ tempFile' = [tempFile EXCEPT ![IdOf(t)] =
                        [exists |-> TRUE, data |-> {}, open |-> @.open \cup {t}]]
                 /\ hpos' = [hpos EXCEPT ![t] = 0]
                 /\ Goto(t, "stream")
                 /\ fetched' = [fetched EXCEPT ![t] = "none"]
                 /\ UNCHANGED <<via, size, exc>>
            ELSE /\ Raise(t, "network")
                 /\ fetched' = [fetched EXCEPT ![t] = "failed"]
                 /\ UNCHANGED <<tempFile, hpos, via, size>>
    /\ UNCHANGED <<envVars, dbVars, finalFile, metaFile, ctrVars, mainVars, flagVars,
                   retryVars>>

\* download_image, lines 1332-1335: one step of response.iter_content.  The
\* stream hands over the next chunk, ends (an empty body ends at once), or breaks.
Stream(t) ==
    /\ pc[t] = "stream"
    /\ \E ev \in {"chunk", "end", "error"} :
          /\ ev = "chunk" => hpos[t] < PayloadChunks
          /\ ev = "end" => hpos[t] \in {0, PayloadChunks}
          /\ ev = "error" => hpos[t] < PayloadChunks
          /\ IF ev = "chunk"
               THEN /\ tempFile' = [tempFile EXCEPT ![IdOf(t)].data = @ \cup {hpos[t] + 1}]
                    /\ hpos' = [hpos EXCEPT ![t] = @ + 1]
                    /\ UNCHANGED <<pc, exc, fetched>>
               ELSE /\ tempFile' = [tempFile EXCEPT ![IdOf(t)].open = @ \ {t}]
                    /\ IF ev = "end"
                         THEN Goto(t, "closed") /\ UNCHANGED exc
                         ELSE Raise(t, "network")
                    /\ fetched' = [fetched EXCEPT ![t] =
                          IF ev = "end" /\ hpos[t] > 0 THEN "ok" ELSE "failed"]
                    /\ UNCHANGED hpos
    /\ UNCHANGED <<envVars, fetches, dbVars, finalFile, metaFile, ctrVars, mainVars,
                   flagVars, via, size, retryVars>>

\* os.remove(temp_filepath) followed by a counter update and a return; a failing
\* os.remove raises into the except clause of download_image.
RemoveTempThen(t, d, s, f, ft, success, status) ==
    IF CanUnlink(tempFile[IdOf(t)])
      THEN /\ tempFile' = [tempFile EXCEPT ![IdOf(t)] = NoFile]
           /\ Count(d, s, f, ft)
           /\ Return(t, success, status)
      ELSE /\ Raise(t, "fs")
           /\ UNCHANGED <<tempFile, ctrVars, hpos, via, size, retryVars>>

\* download_image, lines 1337-1411 and 1436-1440: after the file is closed.
\* Empty body, type filter, and the test whether the final path exists.
AfterClose(t) ==
    /\ pc[t] = "closed"
    /\ LET id == IdOf(t)
           fmt == DetectImageFormat(Signature(id))
       IN IF hpos[t] = 0
            THEN RemoveTempThen(t, 0, 0, 1, 0, FALSE, "error: empty file")
            ELSE IF FilteredByType(fmt.ext)
              THEN RemoveTempThen(t, 0, 0, 0, 1, TRUE, "skipped (type)")
              ELSE IF finalFile[id].exists
                THEN IF CanUnlink(tempFile[id])
                       THEN /\ tempFile' = [tempFile EXCEPT ![id] = NoFile]
                            /\ Goto(t, "dup_check")
                            /\ UNCHANGED <<ctrVars, localVars, retryVars>>
                       ELSE /\ Raise(t, "fs")
                            /\ UNCHANGED <<tempFile, ctrVars, hpos, via, size, retryVars>>
                ELSE /\ Goto(t, "rename")
                     /\ UNCHANGED <<tempFile, ctrVars, localVars, retryVars>>
    /\ UNCHANGED fetched
    /\ UNCHANGED <<envVars, fetches, dbVars, finalFile, metaFile, mainVars, flagVars>>

\* download_image, lines 1401-1411: the file exists; log it unless the ledger has it.
DupCheck(t) ==
    /\ pc[t] = "dup_check"
    /\ IF IsDownloadedDb(IdOf(t))
         THEN Count(0, 1, 0, 0) /\ Return(t, TRUE, "skipped (exists)")
         ELSE /\ size' = [size EXCEPT ![t] = Cardinality(finalFile[IdOf(t)].data)]
              /\ via' = [via EXCEPT ![t] = "exists"]
              /\ Goto(t, "log_row")
              /\ UNCHANGED <<ctrVars, hpos, exc, retryVars>>
    /\ UNCHANGED fetched
    /\ UNCHANGED <<envVars, fetches, dbVars, fsVars, mainVars, flagVars>>

\* download_image, lines 1413-1422: os.rename, the metadata json, stat().st_size.
Rename(t) ==
    /\ pc[t] = "rename"
    /\ LET id == IdOf(t)
       IN IF CanUnlink(tempFile[id]) /\ ~finalFile[id].exists
            THEN /\ finalFile' = [finalFile EXCEPT ![id] = tempFile[id]]
                 /\ tempFile' = [tempFile EXCEPT ![id] = NoFile]
                 /\ metaFile' = IF cfg.save_metadata THEN metaFile \cup {id} ELSE metaFile
                 /\ size' = [size EXCEPT ![t] = Cardinality(tempFile[id].data)]
                 /\ via' = [via EXCEPT ![t] = "downloaded"]
                 /\ Goto(t, "log_row")
                 /\ UNCHANGED <<hpos, exc>>
            ELSE /\ Raise(t, "fs")
                 /\ UNCHANGED <<fsVars, hpos, via, size>>
    /\ UNCHANGED fetched
    /\ UNCHANGED <<envVars, fetches, dbVars, ctrVars, mainVars, flagVars, retryVars>>

\* The end of download_image after _log_download_db: counter and return value.
Complete(t) ==
    IF via[t] = "exists"
      THEN Count(0, 1, 0, 0) /\ Return(t, TRUE, "skipped (exists)")
      ELSE Count(1, 0, 0, 0) /\ Return(t, TRUE, "downloaded")

Continue(t, p) ==
    /\ Goto(t, p)
    /\ UNCHANGED <<ctrVars, localVars, retryVars>>

\* A ledger write raises sqlite3.Error, which nothing catches before the except
\* clause of download_image.
DbError(t) ==
    /\ db_faults > 0
    /\ db_faults' = db_faults - 1
    /\ Raise(t, "db")
    /\ UNCHANGED <<ctrVars, hpos, via, size, retryVars>>

\* _log_download_db, lines 574-625: the first "with self.db_lock" block writes the
\* downloads row and the metadata blob and commits.  The write can fail at the
\* INSERT of the row, which leaves no row, or after it (at the metadata INSERT or
\* at the commit), which leaves the row in the open transaction of the one
\* connection the scraper reads and writes through.
LogDownloadDb(t) ==
    /\ pc[t] = "log_row"
    /\ LET id == IdOf(t)
           written == InsertOrReplace(downloads,
                          Row(id, "success", "none", size[t], dbClock + 1))
       IN \/ /\ downloads' = written
             /\ dbClock' = dbClock + 1
             /\ metadata_tbl' = IF cfg.save_metadata THEN metadata_tbl \cup {id}
                                ELSE metadata_tbl
             /\ IF cfg.save_metadata /\ ItemHasMeta(id) THEN Continue(t, "store_params")
                ELSE IF cfg.save_metadata /\ ItemHasTags(id) THEN Continue(t, "store_tags")
                ELSE Complete(t)
             /\ UNCHANGED db_faults
          \/ /\ DbError(t)
             /\ UNCHANGED <<downloads, dbClock, metadata_tbl>>
          \/ /\ DbError(t)
             /\ downloads' = written
             /\ dbClock' = dbClock + 1
             /\ UNCHANGED metadata_tbl
    /\ UNCHANGED fetched
    /\ UNCHANGED <<envVars, fetches, generation_params, image_tags, fsVars, mainVars,
                   flagVars>>

\* _store_generation_params: a second, separate "with self.db_lock" block.
StoreGenerationParams(t) ==
    /\ pc[t] = "store_params"
    /\ \/ /\ generation_params' = generation_params \cup {IdOf(t)}
          /\ IF ItemHasTags(IdOf(t)) THEN Continue(t, "store_tags") ELSE Complete(t)
          /\ UNCHANGED db_faults
       \/ /\ DbError(t)
          /\ UNCHANGED generation_params
    /\ UNCHANGED fetched
    /\ UNCHANGED <<envVars, fetches, downloads, metadata_tbl, image_tags, dbClock,
                   fsVars, mainVars, flagVars>>

\* _store_tags: a third "with self.db_lock" block.
StoreTags(t) ==
    /\ pc[t] = "store_tags"
    /\ \/ /\ image_tags' = image_tags \cup {IdOf(t)}
          /\ Complete(t)
          /\ UNCHANGED db_faults
       \/ /\ DbError(t)
          /\ UNCHANGED image_tags
    /\ UNCHANGED fetched
    /\ UNCHANGED <<envVars, fetches, downloads, metadata_tbl, generation_params,
                   dbClock, fsVars, mainVars, flagVars>>

\* Mutant of the except clause: the temp file is left where it is.
Except_NoCleanup(t) ==
    /\ pc[t] = "except"
    /\ UNCHANGED tempFile
    /\ Count(0, 0, 1, 0)
    /\ Return(t, FALSE,
              IF exc[t] = "network" THEN "error: network"
              ELSE IF exc[t] = "db" THEN "error: db" ELSE "error: fs")
    /\ UNCHANGED fetched
    /\ UNCHANGED <<envVars, fetches, dbVars, finalFile, metaFile, mainVars, flagVars>>

\* Mutant of the except clause: a ledger error is raised again instead of
\* being turned into a failure outcome.
Except_Reraise(t) ==
    /\ pc[t] = "except"
    /\ LET f == tempFile[IdOf(t)]
       IN /\ tempFile' = IF CanUnlink(f) THEN [tempFile EXCEPT ![IdOf(t)] = NoFile]
                         ELSE tempFile
          /\ Count(0, 0, 1, 0)
          /\ IF (f.exists /\ ~CanUnlink(f)) \/ exc[t] = "db"
               THEN Return(t, FALSE, "raised: UnboundLocalError")
               ELSE Return(t, FALSE,
                           IF exc[t] = "network" THEN "error: network" ELSE "error: fs")
    /\ UNCHANGED fetched
    /\ UNCHANGED <<envVars, fetches, dbVars, finalFile, metaFile, mainVars, flagVars>>

\* download_image, lines 1442-1452: the except clause.  The temp file is removed
\* if it exists.  When os.remove raises OSError, the inner "except OSError as e"
\* unbinds e at its end, so building the return value f"error: {e}" raises
\* UnboundLocalError after failed_count was incremented.
Except(t) ==
    /\ pc[t] = "except"
    /\ LET f == tempFile[IdOf(t)]
       IN /\ tempFile' = IF CanUnlink(f) THEN [tempFile EXCEPT ![IdOf(t)] = NoFile]
                         ELSE tempFile
          /\ Count(0, 0, 1, 0)
          /\ IF f.exists /\ ~CanUnlink(f)
               THEN Return(t, FALSE, "raised: UnboundLocalError")
               ELSE Return(t, FALSE,
                           IF exc[t] = "network" THEN "error: network"
                           ELSE IF exc[t] = "db" THEN "error: db" ELSE "error: fs")
    /\ UNCHANGED fetched
    /\ UNCHANGED <<envVars, fetches, dbVars, finalFile, metaFile, mainVars, flagVars>>

\* ------------------------------------------------------- the batch dispatcher
\* check_pause, lines 928-935: a pending 'p' keypress toggles paused.
Toggle(key) == IF key THEN ~paused ELSE paused

\* _download_batch, lines 1554-1584: the body of the as_completed loop after
\* check_pause returned.  future.result() re-raises an exception of the task,
\* and the except clause counts it as failed.
HandleFuture(t) ==
    IF ~running
      THEN /\ mainPc' = "shutdown"
           /\ UNCHANGED <<successful, ctrVars>>
      ELSE /\ successful' = IF result[t].status = "downloaded"
                              THEN successful + 1 ELSE successful
           /\ IF IsRaised(result[t].status) THEN Count(0, 0, 1, 0)
              ELSE UNCHANGED ctrVars
           /\ mainPc' = IF collected' = Tasks THEN "shutdown" ELSE "wait"

\* as_completed yields a finished future; check_pause polls the keyboard and
\* spins while paused and running.
TakeCompleted(t) ==
    /\ mainPc = "wait"
    /\ pc[t] = "done"
    /\ t \notin collected
    /\ collected' = collected \cup {t}
    /\ \E key \in BOOLEAN :
          /\ paused' = Toggle(key)
          /\ IF paused' /\ running
               THEN /\ mainPc' = "paused"
                    /\ cur' = t
                    /\ UNCHANGED <<successful, ctrVars>>
               ELSE /\ cur' = 0
                    /\ HandleFuture(t)
    /\ UNCHANGED fetched
    /\ UNCHANGED <<envVars, fetches, dbVars, fsVars, running, taskVars>>

\* check_pause, lines 937-943: the spin loop ends on a 'p' keypress or when
\* running is cleared (paused then stays set).
PauseLoop ==
    /\ mainPc = "paused"
    /\ UNCHANGED collected
    /\ \E key \in BOOLEAN :
          /\ key \/ ~running
          /\ paused' = IF key THEN FALSE ELSE paused
          /\ cur' = 0
          /\ HandleFuture(cur)
    /\ UNCHANGED fetched
    /\ UNCHANGED <<envVars, fetches, dbVars, fsVars, running, taskVars>>

\* Leaving the "with ThreadPoolExecutor" block: shutdown(wait=True) joins the pool
\* threads, which first drain the work queue; then _download_batch returns.
Shutdown_NoWait ==
    /\ mainPc = "shutdown"
    /\ mainPc' = "returned"
    /\ UNCHANGED fetched
    /\ UNCHANGED <<envVars, fetches, dbVars, fsVars, ctrVars, collected, cur,
                   successful, flagVars, taskVars>>
Shutdown ==
    /\ mainPc = "shutdown"
    /\ \A t \in Tasks : pc[t] = "done"
    /\ mainPc' = "returned"
    /\ UNCHANGED fetched
    /\ UNCHANGED <<envVars, fetches, dbVars, fsVars, ctrVars, collected, cur,
                   successful, flagVars, taskVars>>

\* _signal_handler (Ctrl+C) or the web front-end's stop request: running = False.
Stop ==
    /\ running
    /\ IF drv = "idle" THEN mainPc # "returned" ELSE drv # "done"
    /\ running' = FALSE
    /\ UNCHANGED fetched
    /\ UNCHANGED <<envVars, fetches, dbVars, fsVars, ctrVars, mainVars, paused, taskVars>>

\* The pipeline is run again on the same page with the same settings: a new
\* scraper object over the same output directory and ledger.
Rerun ==
    /\ drv = "idle"
    /\ mainPc = "returned"
    /\ run < MaxRuns
    /\ run' = run + 1
    /\ prevAllDownloaded' = \A t \in Tasks : result[t].status = "downloaded"
    /\ downloaded_count' = 0 /\ skipped_count' = 0
    /\ failed_count' = 0 /\ filtered_type_count' = 0
    /\ running' = TRUE /\ paused' = FALSE
    /\ mainPc' = "wait" /\ collected' = {} /\ cur' = 0 /\ successful' = 0
    /\ pc' = [t \in Tasks |-> "queued"]
    /\ attempt' = [t \in Tasks |-> 0]
    /\ hpos' = [t \in Tasks |-> 0]
    /\ via' = [t \in Tasks |-> "none"]
    /\ size' = [t \in Tasks |-> 0]
    /\ exc' = [t \in Tasks |-> "none"]
    /\ sleeps' = [t \in Tasks |-> <<>>]
    /\ last_error' = [t \in Tasks |-> "None"]
    /\ lastStatus' = [t \in Tasks |-> "none"]
    /\ failures' = [t \in Tasks |-> 0]
    /\ fetched' = [t \in Tasks |-> "none"]
    /\ result' = [t \in Tasks |-> NoResult]
    /\ fetches' = 0
    /\ UNCHANGED <<cfg, items, drvVars, ratingVars, auxVars, dbVars, fsVars>>

Next ==
    \/ \E t \in Tasks : StartTask(t)
    \/ \E t \in Tasks : CheckDownloaded(t)
    \/ \E t \in Tasks : Fetch(t)
    \/ \E t \in Tasks : Stream(t)
    \/ \E t \in Tasks : AfterClose(t)
    \/ \E t \in Tasks : DupCheck(t)
    \/ \E t \in Tasks : Rename(t)
    \/ \E t \in Tasks : LogDownloadDb(t)
    \/ \E t \in Tasks : StoreGenerationParams(t)
    \/ \E t \in Tasks : StoreTags(t)
    \/ \E t \in Tasks : Except(t)
    \/ \E t \in Tasks : TakeCompleted(t)
    \/ PauseLoop
    \/ Shutdown
    \/ Stop
    \/ Rerun

Spec == Init /\ [][Next]_vars

\* The same program with a pool of one thread (--workers 1) and retry enabled,
\* which leaves room for max_retries up to MaxRetriesSequential.
InitRetry ==
    InitWith({c \in Configs(MaxRetriesSequential) : c.workers = 1 /\ c.enable_retry},
             [1..NumItems -> Ids])

SpecRetry == InitRetry /\ [][Next]_vars

\* One worker, with and without retry, over a ledger of which up to MaxDbFaults
\* writes fail.
InitFaulty ==
    InitWithFaults({c \in Configs(MaxRetries + 1) :
                        c.workers = 1 /\ (c.enable_retry => c.max_retries > 0)},
                   [1..NumItems -> Ids], 0..MaxDbFaults)

SpecFaulty == InitFaulty /\ [][Next]_vars


\* ------------------------------------------------------ the pagination driver
\* Image k declares k units on its longer side (max of width and height).
LongerSide(id) == id

\* scrape, lines 1722-1741: the minimum-resolution filter (0: not configured).
FilterItems(its) ==
    IF opts.min_resolution = 0 THEN its
    ELSE SelectSeq(its, LAMBDA id : LongerSide(id) >= opts.min_resolution)

Min(a, b) == IF a < b THEN a ELSE b

\* The remote API: the page of at most lim items that starts at cursor c
\* (0: the start of the listing), with nextCursor absent (0) on the last page.
ApiPage(c, lim) ==
    LET start == IF c = 0 THEN 1 ELSE c
        stop  == Min(start + lim - 1, Len(listing))
    IN  [items |-> SubSeq(listing, start, stop),
         next  |-> IF stop < Len(listing) THEN stop + 1 ELSE 0]

\* scrape, lines 1681-1686, and build_query_params, line 967.
PageLimit ==
    IF opts.endless THEN MaxPageSize
    ELSE Min(Min(opts.max_images - downloaded_count, MaxPageSize), MaxPageSize)

\* scrape, line 1678.
LimitReached_OffByOne ==
    ~opts.endless /\ opts.max_images # 0 /\ downloaded_count > opts.max_images
LimitReached ==
    ~opts.endless /\ opts.max_images # 0 /\ downloaded_count >= opts.max_images

\* Leaving the while loop of scrape() towards its finally block.
Leave(how) ==
    /\ exit' = how
    /\ drv' = "finally"

\* scrape, lines 1702-1704: fetch_images returned None (it caught a
\* RequestException: connection error, timeout, HTTP error status).
OnFetchError_TryAgain ==
    /\ drv' = "loop"
    /\ UNCHANGED exit
OnFetchError == Leave("fetch_error")

\* _download_batch, lines 1503-1550: one future per item, all submitted up front.
SubmitAll(its) ==
    /\ items' = its
    /\ mainPc' = "wait" /\ collected' = {} /\ cur' = 0 /\ successful' = 0
    /\ pc' = [t \in 1..Len(its) |-> "queued"]
    /\ attempt' = [t \in 1..Len(its) |-> 0]
    /\ hpos' = [t \in 1..Len(its) |-> 0]
    /\ via' = [t \in 1..Len(its) |-> "none"]
    /\ size' = [t \in 1..Len(its) |-> 0]
    /\ exc' = [t \in 1..Len(its) |-> "none"]
    /\ sleeps' = [t \in 1..Len(its) |-> <<>>]
    /\ last_error' = [t \in 1..Len(its) |-> "None"]
    /\ lastStatus' = [t \in 1..Len(its) |-> "none"]
    /\ failures' = [t \in 1..Len(its) |-> 0]
    /\ fetched' = [t \in 1..Len(its) |-> "none"]
    /\ result' = [t \in 1..Len(its) |-> NoResult]

\* scrape, lines 1675-1676: the loop test, then check_pause polls the keyboard.
LoopTest ==
    /\ drv = "loop"
    /\ IF ~running
         THEN /\ Leave("stopped")
              /\ UNCHANGED paused
         ELSE /\ \E key \in BOOLEAN : paused' = Toggle(key)
              /\ drv' = IF paused' THEN "pause" ELSE "fetch"
              /\ UNCHANGED exit
    /\ UNCHANGED <<ratingVars, auxVars, cfg, items, run, prevAllDownloaded, opts, listing, cursor, nextCursor,
                   request, pending, summary>>
    /\ UNCHANGED <<fetches, dbVars, fsVars, ctrVars, mainVars, running, taskVars, fetched>>

\* Mutant of check_pause: the spin loop tests paused only ("while self.paused").
CheckPause_IgnoresStop ==
    /\ drv = "pause"
    /\ paused' = FALSE
    /\ drv' = "fetch"
    /\ UNCHANGED <<ratingVars, auxVars, cfg, items, run, prevAllDownloaded, opts, listing, cursor, nextCursor,
                   request, pending, exit, summary>>
    /\ UNCHANGED <<fetches, dbVars, fsVars, ctrVars, mainVars, running, taskVars, fetched>>

\* check_pause, lines 937-943, called from scrape: the spin loop ends on a 'p'
\* keypress or when running is cleared; scrape then goes on to the limit test.
CheckPause ==
    /\ drv = "pause"
    /\ \E key \in BOOLEAN :
          /\ key \/ ~running
          /\ paused' = IF key THEN FALSE ELSE paused
    /\ drv' = "fetch"
    /\ UNCHANGED <<ratingVars, auxVars, cfg, items, run, prevAllDownloaded, opts, listing, cursor, nextCursor,
                   request, pending, exit, summary>>
    /\ UNCHANGED <<fetches, dbVars, fsVars, ctrVars, mainVars, running, taskVars, fetched>>

\* scrape, lines 1677-1777: the limit test, the page request, the filters and the
\* hand-over to _download_batch.  fetch_images returns None on a RequestException.
FetchPage ==
    /\ drv = "fetch"
    /\ UNCHANGED <<ratingVars, auxVars, cfg, run, prevAllDownloaded, opts, listing, cursor, pending, summary>>
    /\ UNCHANGED <<fetches, dbVars, fsVars, ctrVars, flagVars>>
    /\ IF LimitReached
         THEN /\ Leave("target")
              /\ UNCHANGED <<request, nextCursor, items, mainVars, taskVars, fetched>>
         ELSE \E failed \in BOOLEAN :
                    LET data == ApiPage(cursor, PageLimit)
                        kept == FilterItems(data.items)
                    IN
                    /\ request' = [cursor |-> cursor, limit |-> PageLimit,
                                   flip |-> ~request.flip, ok |-> ~failed]
                    /\  IF failed
                          THEN /\ OnFetchError
                               /\ UNCHANGED <<nextCursor, items, mainVars, taskVars, fetched>>
                        ELSE IF data.items = <<>>
                          THEN /\ Leave("exhausted")
                               /\ UNCHANGED <<nextCursor, items, mainVars, taskVars, fetched>>
                        ELSE IF kept = <<>>
                          THEN /\ drv' = "loop"
                               /\ UNCHANGED <<exit, nextCursor, items, mainVars, taskVars,
                                              fetched>>
                        ELSE /\ drv' = "batch"
                             /\ nextCursor' = data.next
                             /\ SubmitAll(kept)
                             /\ UNCHANGED exit

\* scrape, lines 1789-1802: _download_batch has returned; take the next cursor,
\* leave when there is none, else sleep and loop.  A KeyboardInterrupt raised
\* inside the batch arrives here after the executor block has been left.
Advance ==
    /\ drv = "batch"
    /\ mainPc = "returned"
    /\ IF pending # "none"
         THEN /\ Leave("interrupted")
              /\ pending' = "none"
              /\ UNCHANGED cursor
         ELSE /\ cursor' = nextCursor
              /\ IF nextCursor = 0 THEN Leave("exhausted")
                 ELSE drv' = "loop" /\ UNCHANGED exit
              /\ UNCHANGED pending
    /\ UNCHANGED <<ratingVars, auxVars, cfg, items, run, prevAllDownloaded, opts, listing, nextCursor, request,
                   summary>>
    /\ UNCHANGED <<fetches, dbVars, fsVars, ctrVars, mainVars, flagVars, taskVars, fetched>>

\* Ctrl+C with no SIGINT handler installed (enable_signal_handler=False):
\* KeyboardInterrupt in the thread that runs scrape().  Inside _download_batch it
\* unwinds the as_completed loop into the executor's exit, which still waits
\* for the pool; elsewhere the except clause at line 1804 takes it at once.
Interrupt ==
    /\ ~opts.signal_handler
    /\ pending = "none"
    /\ \/ /\ drv \in {"loop", "pause", "fetch"}
          /\ Leave("interrupted")
          /\ UNCHANGED <<pending, mainVars>>
       \/ /\ drv = "batch"
          /\ mainPc \in {"wait", "paused"}
          /\ pending' = "KeyboardInterrupt"
          /\ mainPc' = "shutdown"
          /\ cur' = 0
          /\ UNCHANGED <<drv, exit, collected, successful>>
    /\ UNCHANGED <<ratingVars, auxVars, cfg, items, run, prevAllDownloaded, opts, listing, cursor, nextCursor,
                   request, summary>>
    /\ UNCHANGED <<fetches, dbVars, fsVars, ctrVars, flagVars, taskVars, fetched>>

\* scrape, lines 1806-1858: the finally block prints FINAL STATISTICS.
Finally_OnlyWhenExhausted ==
    /\ drv = "finally"
    /\ drv' = "done"
    /\ summary' = (exit = "exhausted")
    /\ UNCHANGED <<ratingVars, auxVars, cfg, items, run, prevAllDownloaded, opts, listing, cursor, nextCursor,
                   request, pending, exit>>
    /\ UNCHANGED <<fetches, dbVars, fsVars, ctrVars, mainVars, flagVars, taskVars, fetched>>
Finally ==
    /\ drv = "finally"
    /\ drv' = "done"
    /\ summary' = TRUE
    /\ UNCHANGED <<ratingVars, auxVars, cfg, items, run, prevAllDownloaded, opts, listing, cursor, nextCursor,
                   request, pending, exit>>
    /\ UNCHANGED <<fetches, dbVars, fsVars, ctrVars, mainVars, flagVars, taskVars, fetched>>

Listings == UNION {[1..n -> Ids] : n \in 0..MaxListing}

Options ==
    {[endless |-> e, max_images |-> IF e THEN 0 ELSE m, min_resolution |-> r,
      signal_handler |-> h] :
        e \in BOOLEAN, m \in 1..MaxTarget, r \in {0, MaxId}, h \in BOOLEAN}

\* main, lines 2111-2146: a scraper over an empty output directory and ledger,
\* about to enter the page loop of scrape() with one of the given arguments.
InitScrapeWith(options) ==
    /\ NoRating
    /\ cfg \in {c \in Configs(0) : /\ ~c.enable_retry /\ ~c.save_metadata
                                    /\ c.allowed_types = AllowAll}
    /\ opts \in options
    /\ listing \in Listings
    /\ drv = "loop" /\ cursor = 0 /\ nextCursor = 0 /\ request = NoRequest
    /\ pending = "none" /\ exit = "none" /\ summary = FALSE
    /\ run = 1 /\ prevAllDownloaded = FALSE /\ fetches = 0
    /\ downloads = {} /\ metadata_tbl = {} /\ generation_params = {} /\ image_tags = {}
    /\ dbClock = 0 /\ db_faults = 0
    /\ tempFile = [id \in Ids |-> NoFile]
    /\ finalFile = [id \in Ids |-> NoFile]
    /\ metaFile = {}
    /\ items = <<>>
    /\ downloaded_count = 0 /\ skipped_count = 0
    /\ failed_count = 0 /\ filtered_type_count = 0
    /\ running = TRUE /\ paused = FALSE
    /\ mainPc = "returned" /\ collected = {} /\ cur = 0 /\ successful = 0
    /\ pc = <<>> /\ attempt = <<>> /\ hpos = <<>> /\ via = <<>> /\ size = <<>>
    /\ exc = <<>> /\ sleeps = <<>> /\ last_error = <<>> /\ lastStatus = <<>>
    /\ failures = <<>> /\ fetched = <<>> /\ result = <<>>

InitScrape == InitScrapeWith(Options)

Workers ==
    \/ \E t \in Tasks : StartTask(t)
    \/ \E t \in Tasks : CheckDownloaded(t)
    \/ \E t \in Tasks : Fetch(t)
    \/ \E t \in Tasks : Stream(t)
    \/ \E t \in Tasks : AfterClose(t)
    \/ \E t \in Tasks : DupCheck(t)
    \/ \E t \in Tasks : Rename(t)
    \/ \E t \in Tasks : LogDownloadDb(t)
    \/ \E t \in Tasks : Except(t)
    \/ \E t \in Tasks : TakeCompleted(t)
    \/ PauseLoop
    \/ Shutdown

NextScrape ==
    \/ Workers
    \/ LoopTest
    \/ CheckPause
    \/ FetchPage
    \/ Advance
    \/ Stop
    \/ Interrupt
    \/ Finally

SpecScrape == InitScrape /\ [][NextScrape]_vars

\* A run that receives neither a stop request nor a keyboard interrupt.  The
\* threads keep being scheduled, and a pause is ended by a key press.
NextUndisturbed ==
    \/ Workers
    \/ LoopTest
    \/ CheckPause
    \/ FetchPage
    \/ Advance
    \/ Finally

SpecUndisturbed == InitScrape /\ [][NextUndisturbed]_vars /\ WF_vars(NextUndisturbed)

\* A run that can be stopped and interrupted, in which the threads keep being
\* scheduled but nobody has to press a key: the steps that leave paused as it is
\* are the ones that happen without the keyboard.
SpecNoResume ==
    InitScrape /\ [][NextScrape]_vars /\ WF_vars(NextUndisturbed /\ paused' = paused)

\* scrape() called in limited mode with a target of 0, as the web front-end can:
\* run_download_task passes num_images and endless of the request as they are.
\* main replaces a target of 0 by 100 (line 2117).
ZeroTarget ==
    {[endless |-> FALSE, max_images |-> 0, min_resolution |-> r, signal_handler |-> h] :
        r \in {0, MaxId}, h \in BOOLEAN}

SpecAnyTarget == InitScrapeWith(Options \cup ZeroTarget) /\ [][NextScrape]_vars


\* ---------------------------------------------------------- content rating
\* String values of the rating fields: the six labels, labels in another letter
\* case, strings that are no label, and strings that are integer literals.
Labels == {"None", "Soft", "Mature", "Mature+", "X", "XXX"}
RatingStrings == Labels \cup {"soft", "xXx", "Foo", "", "3", "8"}

\* str.upper() on the strings above.
Upper(x) ==
    CASE x = "None" -> "NONE" [] x = "Soft" -> "SOFT" [] x = "soft" -> "SOFT"
      [] x = "Mature" -> "MATURE" [] x = "Mature+" -> "MATURE+"
      [] x = "xXx" -> "XXX" [] x = "Foo" -> "FOO"
      [] OTHER -> x

\* int(x) on the strings above: the value of an integer literal, ValueError otherwise.
IsIntLiteral(x) == x \in {"3", "8"}
IntOfLiteral(x) == IF x = "3" THEN 3 ELSE 8

\* _convert_nsfw_to_level, lines 516-523.
nsfw_mapping_Shifted ==
    [x \in {"NONE", "SOFT", "MATURE", "MATURE+", "X", "XXX"} |->
        CASE x = "NONE" -> 0 [] x = "SOFT" -> 1 [] x = "MATURE" -> 2
          [] x = "MATURE+" -> 3 [] x = "X" -> 4 [] x = "XXX" -> 5]
nsfw_mapping ==
    [x \in {"NONE", "SOFT", "MATURE", "MATURE+", "X", "XXX"} |->
        CASE x = "NONE" -> 0 [] x = "SOFT" -> 1 [] x = "MATURE" -> 2
          [] x = "MATURE+" -> 4 [] x = "X" -> 5 [] x = "XXX" -> 6]

\* _convert_nsfw_to_level: None gives 0; whatever int() accepts is returned as
\* that integer; any other value is upper-cased and looked up, with a warning
\* and level 0 when the lookup fails.
ConvertNsfwToLevel(v) ==
    IF v.kind = "none" THEN [level |-> 0, warned |-> FALSE]
    ELSE IF v.kind = "int" THEN [level |-> v.int, warned |-> FALSE]
    ELSE IF IsIntLiteral(v.str) THEN [level |-> IntOfLiteral(v.str), warned |-> FALSE]
    ELSE IF Upper(v.str) \in DOMAIN nsfw_mapping
           THEN [level |-> nsfw_mapping[Upper(v.str)], warned |-> FALSE]
    ELSE [level |-> 0, warned |-> TRUE]

\* _get_nsfw_folder, lines 539-544.
GetNsfwFolder(v) == IF ConvertNsfwToLevel(v).level <= 1 THEN "SFW" ELSE "NSFW"

\* Python truth value of a JSON value: None, 0 and "" are false.
Truthy(v) == \/ v.kind = "int" /\ v.int # 0
             \/ v.kind = "str" /\ v.str # ""

\* metadata.get('nsfwLevel') or metadata.get('nsfw') if metadata else None
\* (download_image line 1367; _log_download_db line 590 inside "if metadata").
NsfwRaw(m) ==
    IF ~m.present THEN JNone
    ELSE IF Truthy(m.nsfwLevel) THEN m.nsfwLevel ELSE m.nsfw

\* _download_batch, lines 1516-1533: the metadata dict exists only when
\* save_metadata is set.
BuildMetadata ==
    /\ rpc = "item"
    /\ metadata' = IF ropts.save_metadata
                     THEN [present |-> TRUE, nsfwLevel |-> item.nsfwLevel, nsfw |-> item.nsfw]
                     ELSE [present |-> FALSE, nsfwLevel |-> JNone, nsfw |-> JNone]
    /\ rpc' = "task"
    /\ UNCHANGED <<item, ropts, conv, filepath, nsfw_level>>
    /\ UNCHANGED <<cfg, items, run, prevAllDownloaded, drvVars, auxVars>>
    /\ UNCHANGED <<fetches, dbVars, fsVars, ctrVars, mainVars, flagVars, taskVars, fetched>>

\* download_image, lines 1355-1395: the directory of the final path.
ComputeFilepath ==
    /\ rpc = "task"
    /\ filepath' =
          IF ropts.organize_by_nsfw
            THEN [tree |-> IF item.is_video THEN "videos" ELSE "base",
                  folder |-> GetNsfwFolder(NsfwRaw(metadata))]
            ELSE [tree |-> IF item.is_video THEN "videos" ELSE "base", folder |-> "flat"]
    /\ rpc' = "placed"
    /\ UNCHANGED <<item, ropts, metadata, conv, nsfw_level>>
    /\ UNCHANGED <<cfg, items, run, prevAllDownloaded, drvVars, auxVars>>
    /\ UNCHANGED <<fetches, dbVars, fsVars, ctrVars, mainVars, flagVars, taskVars, fetched>>

\* _log_download_db, lines 577-593: the nsfw_level column (NULL without
\* metadata or without a rating value).
LogNsfwLevel ==
    /\ rpc = "placed"
    /\ nsfw_level' =
          IF metadata.present /\ NsfwRaw(metadata).kind # "none"
            THEN [null |-> FALSE, level |-> ConvertNsfwToLevel(NsfwRaw(metadata)).level]
            ELSE Null
    /\ rpc' = "logged"
    /\ UNCHANGED <<item, ropts, metadata, conv, filepath>>
    /\ UNCHANGED <<cfg, items, run, prevAllDownloaded, drvVars, auxVars>>
    /\ UNCHANGED <<fetches, dbVars, fsVars, ctrVars, mainVars, flagVars, taskVars, fetched>>

\* A call of _convert_nsfw_to_level on one of the descriptor's rating fields.
Convert ==
    /\ rpc = "item"
    /\ \E v \in {item.nsfwLevel, item.nsfw} :
          conv' = [raw |-> v, level |-> ConvertNsfwToLevel(v).level,
                   warned |-> ConvertNsfwToLevel(v).warned]
    /\ rpc' = "converted"
    /\ UNCHANGED <<item, ropts, metadata, filepath, nsfw_level>>
    /\ UNCHANGED <<cfg, items, run, prevAllDownloaded, drvVars, auxVars>>
    /\ UNCHANGED <<fetches, dbVars, fsVars, ctrVars, mainVars, flagVars, taskVars, fetched>>

\* The rating fields of an item as the API's JSON can carry them.
RatingValues ==
    {JNone} \cup {JInt(n) : n \in 0..MaxLevelInput} \cup {JStr(x) : x \in RatingStrings}

InitRating ==
    /\ item \in [nsfwLevel : RatingValues, nsfw : RatingValues, is_video : BOOLEAN]
    /\ ropts \in [organize_by_nsfw : BOOLEAN, save_metadata : BOOLEAN]
    /\ rpc = "item"
    /\ metadata = [present |-> FALSE, nsfwLevel |-> JNone, nsfw |-> JNone]
    /\ conv = NoConv /\ filepath = NoPath /\ nsfw_level = Null
    /\ NoDriver
    /\ NoAux
    /\ cfg \in {c \in Configs(0) : /\ ~c.enable_retry /\ ~c.dry_run
                                    /\ c.save_metadata = ropts.save_metadata
                                    /\ c.allowed_types = AllowAll /\ c.workers = 1}
    /\ run = 1 /\ prevAllDownloaded = FALSE /\ fetches = 0
    /\ downloads = {} /\ metadata_tbl = {} /\ generation_params = {} /\ image_tags = {}
    /\ dbClock = 0 /\ db_faults = 0
    /\ tempFile = [id \in Ids |-> NoFile]
    /\ finalFile = [id \in Ids |-> NoFile]
    /\ metaFile = {}
    /\ items = <<>>
    /\ downloaded_count = 0 /\ skipped_count = 0
    /\ failed_count = 0 /\ filtered_type_count = 0
    /\ running = TRUE /\ paused = FALSE
    /\ mainPc = "returned" /\ collected = {} /\ cur = 0 /\ successful = 0
    /\ pc = <<>> /\ attempt = <<>> /\ hpos = <<>> /\ via = <<>> /\ size = <<>>
    /\ exc = <<>> /\ sleeps = <<>> /\ last_error = <<>> /\ lastStatus = <<>>
    /\ failures = <<>> /\ fetched = <<>> /\ result = <<>>

NextRating ==
    \/ BuildMetadata
    \/ ComputeFilepath
    \/ LogNsfwLevel
    \/ Convert

SpecRating == InitRating /\ [][NextRating]_vars


\* ------------------------------------------------------- signature sniffing
\* A scraper whose pipeline is at rest: no batch, no page loop, an empty ledger
\* and an empty output directory.
Idle ==
    /\ NoDriver
    /\ item = NoItem /\ ropts = [organize_by_nsfw |-> TRUE, save_metadata |-> TRUE]
    /\ rpc = "idle" /\ metadata = [present |-> FALSE, nsfwLevel |-> JNone, nsfw |-> JNone]
    /\ conv = NoConv /\ filepath = NoPath /\ nsfw_level = Null
    /\ cfg = [allowed_types |-> AllowAll, dry_run |-> FALSE, enable_retry |-> FALSE,
              max_retries |-> DefaultMaxRetries, workers |-> 1, save_metadata |-> TRUE]
    /\ run = 1 /\ prevAllDownloaded = FALSE /\ fetches = 0
    /\ downloads = {} /\ metadata_tbl = {} /\ generation_params = {} /\ image_tags = {}
    /\ dbClock = 0 /\ db_faults = 0
    /\ tempFile = [id \in Ids |-> NoFile]
    /\ finalFile = [id \in Ids |-> NoFile]
    /\ metaFile = {}
    /\ items = <<>>
    /\ downloaded_count = 0 /\ skipped_count = 0
    /\ failed_count = 0 /\ filtered_type_count = 0
    /\ running = TRUE /\ paused = FALSE
    /\ mainPc = "returned" /\ collected = {} /\ cur = 0 /\ successful = 0
    /\ pc = <<>> /\ attempt = <<>> /\ hpos = <<>> /\ via = <<>> /\ size = <<>>
    /\ exc = <<>> /\ sleeps = <<>> /\ last_error = <<>> /\ lastStatus = <<>>
    /\ failures = <<>> /\ fetched = <<>> /\ result = <<>>

\* What the five byte groups of a chunk can hold: the pieces of every signature
\* the function knows, and bytes of no signature.
ByteGroups ==
    <<{"1A45DF", "FLV", "89504E", "FFD8FF", "RIF", "GIF", "zz"},
      {"A3", "47", "F", "8", "zz"},
      {"ft", "0D0A", "WE", "7a", "9a", "zz"},
      {"yp", "1A0A", "BP", "zz"},
      {"mp42", "isom", "WEBP", "zz"}>>
MaxGroups == Len(ByteGroups)

\* Chunks of every length up to 12 bytes, the empty chunk included.
FirstChunks ==
    UNION {{c \in [1..n -> UNION {ByteGroups[i] : i \in 1..MaxGroups}] :
              \A i \in 1..n : c[i] \in ByteGroups[i]} : n \in 0..MaxGroups}

\* A call of _detect_image_format on the chunk.
Detect ==
    /\ detected = NoDetection
    /\ detected' = DetectImageFormat(first_chunk)
    /\ UNCHANGED <<first_chunk, schemaVars, filterVars, extVars, baseVars, pipelineVars>>

InitSniff ==
    /\ Idle
    /\ first_chunk \in FirstChunks
    /\ detected = NoDetection
    /\ NoSchema /\ NoFilter /\ NoExt

NextSniff ==
    \/ Detect

SpecSniff == InitSniff /\ [][NextSniff]_vars


\* ------------------------------------------------------- opening the ledger
\* The statements _init_database executes on table downloads, in source order.
\* Statements on the other tables (metadata, generation_params, tags,
\* image_tags, favorites and their indexes) name only columns of their own
\* CREATE TABLE statement and are left out.
CreateTable == [op |-> "create_table", name |-> "downloads", col |-> "none"]
CreateIndex(name, col) == [op |-> "create_index", name |-> name, col |-> col]
AddColumn(col) == [op |-> "add_column", name |-> "downloads", col |-> col]
Backfill == [op |-> "backfill", name |-> "downloads", col |-> "reaction_total"]
Commit == [op |-> "commit", name |-> "none", col |-> "none"]

InitStatements ==
    <<CreateTable,
      CreateIndex("idx_status", "none"),
      CreateIndex("idx_timestamp", "none"),
      CreateIndex("idx_nsfw_level", "none"),
      CreateIndex("idx_file_extension", "none"),
      CreateIndex("idx_folder_path", "folder_path"),
      CreateIndex("idx_status_reactions", "reaction_total"),
      AddColumn("folder_path"),
      AddColumn("tags_fetched"),
      AddColumn("reaction_total"),
      Backfill,
      CreateIndex("idx_reaction_total", "reaction_total"),
      Commit>>

Snapshot ==
    [table |-> schema.table, columns |-> schema.columns, indexes |-> schema.indexes,
     total |-> reaction.total]

\* CREATE INDEX IF NOT EXISTS name ON downloads(col): nothing when the index
\* exists; otherwise every named column has to exist.
CanCreateIndex(st) ==
    st.name \in schema.indexes \/ st.col = "none" \/ st.col \in schema.columns

\* __init__ calls _init_database on the ledger file.
OpenLedger ==
    /\ init_db.state \in {"idle", "ok", "raised"}
    /\ init_db.opens < MaxOpens
    /\ init_db' = [init_db EXCEPT !.stmt = 1, !.state = "running"]
    /\ UNCHANGED <<schema, reaction, sniffVars, filterVars, extVars, baseVars, pipelineVars>>

\* One cursor.execute of _init_database.  DDL statements take effect at once
\* (the sqlite3 module opens no transaction for them).  Only the three ALTER
\* TABLE statements sit in try / except sqlite3.OperationalError; an error of
\* any other statement leaves _init_database and the constructor.
Execute ==
    /\ init_db.state = "running"
    /\ LET st == InitStatements[init_db.stmt]
           goOn == [init_db EXCEPT !.stmt = @ + 1]
       IN CASE st.op = "create_table" ->
                 /\ schema' = [schema EXCEPT !.table = TRUE]
                 /\ init_db' = goOn
                 /\ UNCHANGED reaction
            [] st.op = "create_index" ->
                 IF CanCreateIndex(st)
                   THEN /\ schema' = [schema EXCEPT !.indexes = @ \cup {st.name}]
                        /\ init_db' = goOn
                        /\ UNCHANGED reaction
                   ELSE /\ init_db' = [init_db EXCEPT !.state = "raised",
                                                       !.opens = @ + 1]
                        /\ UNCHANGED <<schema, reaction>>
            [] st.op = "add_column" ->
                 /\ schema' = [schema EXCEPT !.columns = @ \cup {st.col}]
                 /\ init_db' = goOn
                 /\ UNCHANGED reaction
            [] st.op = "backfill" ->
                 /\ reaction' = IF reaction.total = 0 /\ reaction.meta # -1
                                  THEN [reaction EXCEPT !.total = reaction.meta]
                                  ELSE reaction
                 /\ init_db' = goOn
                 /\ UNCHANGED schema
            [] st.op = "commit" ->
                 /\ init_db' = [init_db EXCEPT
                        !.state = "ok", !.opens = @ + 1,
                        !.first = IF init_db.opens = 0 THEN Snapshot ELSE @]
                 /\ UNCHANGED <<schema, reaction>>
    /\ UNCHANGED <<sniffVars, filterVars, extVars, baseVars, pipelineVars>>

\* The stores a scraper can be pointed at: no file yet, or a ledger an earlier
\* version left, with any of the added columns and any of the indexes its
\* columns allow.  A row without the reaction_total column has no total.
Stores ==
    {[table |-> FALSE, columns |-> {}, indexes |-> {}]} \cup
    {[table |-> TRUE, columns |-> c, indexes |-> b \cup a] :
        c \in SUBSET AddedColumns, b \in {{}, BaseIndexes},
        a \in SUBSET AddedIndexes}

WellFormed(st) ==
    /\ "idx_folder_path" \in st.indexes => "folder_path" \in st.columns
    /\ {"idx_status_reactions", "idx_reaction_total"} \cap st.indexes # {}
          => "reaction_total" \in st.columns

InitSchema ==
    /\ Idle
    /\ NoSniff /\ NoFilter /\ NoExt
    /\ schema \in {st \in Stores : WellFormed(st)}
    /\ reaction \in [total : 0..MaxReactions, meta : -1..MaxReactions]
    /\ (~schema.table \/ "reaction_total" \notin schema.columns) => reaction.total = 0
    /\ ~schema.table => reaction.meta = -1
    /\ init_db = NotOpening

NextSchema ==
    \/ OpenLedger
    \/ Execute

SpecSchema == InitSchema /\ [][NextSchema]_vars


\* ---------------------------------------------------------- the page filters
\* int(item.get('width', 0)) if item.get('width') else 0: a missing, null, zero
\* or empty value counts as 0 without being parsed; a number is taken as it is;
\* a string is parsed by int(), which raises ValueError unless it is a literal.
ParseSide(v) ==
    IF ~Truthy(v) THEN [ok |-> TRUE, n |-> 0]
    ELSE IF v.kind = "int" THEN [ok |-> TRUE, n |-> v.int]
    ELSE IF IsIntLiteral(v.str) THEN [ok |-> TRUE, n |-> IntOfLiteral(v.str)]
    ELSE [ok |-> FALSE, n |-> 0]

Max(a, b) == IF a >= b THEN a ELSE b

\* scrape, lines 1727-1738: the body of the loop of the resolution filter.
PassesMinResolution(it, min_resolution) ==
    /\ ParseSide(it.width).ok /\ ParseSide(it.height).ok
    /\ Max(ParseSide(it.width).n, ParseSide(it.height).n) >= min_resolution

\* scrape, lines 1715-1717: item.get('nsfwLevel') in [5, 6] or
\* item.get('nsfw') in ['X', 'XXX'], on the values as the API gave them.
PassesNsfwOnly(it) ==
    \/ it.nsfwLevel.kind = "int" /\ it.nsfwLevel.int \in {5, 6}
    \/ it.nsfw.kind = "str" /\ it.nsfw.str \in {"X", "XXX"}

\* scrape, lines 1711-1720: if nsfw_only, the list comprehension.
FilterNsfwOnly ==
    /\ verdict.stage = "fetched"
    /\ verdict' = [stage |-> "rated",
                   kept |-> IF filters.nsfw_only THEN PassesNsfwOnly(page_item) ELSE TRUE]
    /\ UNCHANGED <<page_item, filters, sniffVars, schemaVars, extVars, baseVars, pipelineVars>>

\* scrape, lines 1722-1740: if min_resolution, the loop over the items left.
FilterMinResolution ==
    /\ verdict.stage = "rated"
    /\ verdict' = [stage |-> "sized",
                   kept |-> /\ verdict.kept
                            /\ filters.min_resolution # 0 =>
                                  PassesMinResolution(page_item, filters.min_resolution)]
    /\ UNCHANGED <<page_item, filters, sniffVars, schemaVars, extVars, baseVars, pipelineVars>>

\* Width and height as the API's JSON can carry them.
SideValues ==
    {JNone} \cup {JInt(n) : n \in 0..MaxSide} \cup {JStr(x) : x \in {"", "Foo", "3", "8"}}

\* Rating fields of the items of a page.
PageLevels == {JNone, JInt(0), JInt(2), JInt(5), JInt(6), JStr("5")}
PageLabels == {JNone, JStr("None"), JStr("Mature"), JStr("X"), JStr("XXX"), JStr("xXx")}

InitFilter ==
    /\ Idle
    /\ NoSniff /\ NoSchema /\ NoExt
    /\ page_item \in [width : SideValues, height : SideValues,
                       nsfwLevel : PageLevels, nsfw : PageLabels]
    /\ filters \in [nsfw_only : BOOLEAN, min_resolution : 0..MaxSide]
    /\ verdict = [stage |-> "fetched", kept |-> TRUE]

NextFilter ==
    \/ FilterNsfwOnly
    \/ FilterMinResolution

SpecFilter == InitFilter /\ [][NextFilter]_vars

\* ------------------------------------------------- web front-end: sessions
\* web_interface.py keeps one global scraper and one global download_status.  A
\* start request runs run_download_task in a new thread; session s is the s-th
\* thread started, and scraper object s is the temp_scraper its thread builds.
notWeb == <<sniffVars, schemaVars, filterVars, ledgerVars, baseVars, pipelineVars>>

Executing == {s \in Sessions : threads[s].pc \notin {"idle", "done"}}

\* api_start_download, lines 904-939: refused while download_status['running'];
\* otherwise the status is reset with running True and the thread is started.
ApiStartDownload ==
    /\ ~download_status.running
    /\ \E s \in Sessions :
          /\ threads[s].pc = "idle"
          /\ \A u \in Sessions : u < s => threads[u].pc # "idle"
          /\ threads' = [threads EXCEPT ![s].pc = "save"]
    /\ download_status' = [running |-> TRUE]
    /\ UNCHANGED <<scraper, scrapers, stop_seen, notWeb>>

\* api_stop_download, lines 941-956: refused unless download_status['running'];
\* clears running of whatever the global scraper refers to, then the status.
ApiStopDownload ==
    /\ download_status.running
    /\ scrapers' = [scrapers EXCEPT ![scraper].running = FALSE]
    /\ download_status' = [running |-> FALSE]
    /\ stop_seen' = stop_seen \cup Executing
    /\ UNCHANGED <<scraper, threads, notWeb>>

\* run_download_task, line 980: old_scraper = scraper.
SaveScraper(s) ==
    /\ threads[s].pc = "save"
    /\ threads' = [threads EXCEPT ![s] = [pc |-> "construct", old_scraper |-> scraper]]
    /\ UNCHANGED <<download_status, scraper, scrapers, stop_seen, notWeb>>

\* run_download_task, lines 984-994: temp_scraper = CivitaiScraper(...), whose
\* constructor sets running = True; an exception of the constructor goes to the
\* except clause of line 1064.
Construct(s) ==
    /\ threads[s].pc = "construct"
    /\ \E ok \in BOOLEAN :
          IF ok
            THEN /\ scrapers' = [scrapers EXCEPT ![s] = [exists |-> TRUE, running |-> TRUE]]
                 /\ threads' = [threads EXCEPT ![s].pc = "publish"]
            ELSE /\ threads' = [threads EXCEPT ![s].pc = "finish"]
                 /\ UNCHANGED scrapers
    /\ UNCHANGED <<download_status, scraper, stop_seen, notWeb>>

\* run_download_task, line 997: scraper = temp_scraper; then scrape() is entered.
Publish(s) ==
    /\ threads[s].pc = "publish"
    /\ scraper' = s
    /\ threads' = [threads EXCEPT ![s].pc = "scrape"]
    /\ UNCHANGED <<download_status, scrapers, stop_seen, notWeb>>

\* temp_scraper.scrape(...) returns because its page loop found running cleared.
ScrapeStopped(s) ==
    /\ threads[s].pc = "scrape"
    /\ ~scrapers[s].running
    /\ threads' = [threads EXCEPT ![s].pc = "finish"]
    /\ UNCHANGED <<download_status, scraper, scrapers, stop_seen, notWeb>>

\* temp_scraper.scrape(...) returns on its own (target reached, listing
\* exhausted, page fetch failed) or raises.
ScrapeEnds(s) ==
    /\ threads[s].pc = "scrape"
    /\ threads' = [threads EXCEPT ![s].pc = "finish"]
    /\ UNCHANGED <<download_status, scraper, scrapers, stop_seen, notWeb>>

\* run_download_task, lines 1058 and 1065: download_status['running'] = False.
Finish(s) ==
    /\ threads[s].pc = "finish"
    /\ download_status' = [running |-> FALSE]
    /\ threads' = [threads EXCEPT ![s].pc = "restore"]
    /\ UNCHANGED <<scraper, scrapers, stop_seen, notWeb>>

\* run_download_task, lines 1062 and 1068: scraper = old_scraper; the thread ends.
Restore(s) ==
    /\ threads[s].pc = "restore"
    /\ scraper' = threads[s].old_scraper
    /\ threads' = [threads EXCEPT ![s].pc = "done"]
    /\ UNCHANGED <<download_status, scrapers, stop_seen, notWeb>>

InitWeb ==
    /\ Idle
    /\ NoSniff /\ NoSchema /\ NoFilter
    /\ NoWeb /\ NoLedger

\* The steps a session thread takes without anything from outside.
ThreadStep ==
    \E s \in Sessions :
        \/ SaveScraper(s)
        \/ Construct(s)
        \/ Publish(s)
        \/ ScrapeStopped(s)
        \/ Finish(s)
        \/ Restore(s)

NextWeb ==
    \/ ApiStartDownload
    \/ ApiStopDownload
    \/ ThreadStep
    \/ \E s \in Sessions : ScrapeEnds(s)

\* The threads keep being scheduled; a scrape() need not end on its own.
SpecWeb == InitWeb /\ [][NextWeb]_vars /\ WF_vars(ThreadStep)

\* ------------------------------------------- the ledger beside the pipeline
\* The operations on the ledger file that do not come from download_image: the
\* web front-end's favorite, unfavorite and delete, the two backfill loops of the
\* scraper, and clear_database of clear_history.py.  Each runs in one
\* "with db_lock" block or, for the backfills, one block per write.
notLedger == <<baseVars, sniffVars, schemaVars, filterVars, webVars, fetches, dbClock,
               db_faults, tempFile, ctrVars, mainVars, flagVars, taskVars, fetched>>

HasRow(id) == RowsOf(id) # {}

\* api_favorite_image: 404 unless downloads has the id, then INSERT OR IGNORE.
Favorite(id) ==
    /\ HasRow(id)
    /\ id \notin favorites
    /\ favorites' = favorites \cup {id}
    /\ UNCHANGED <<downloads, metadata_tbl, generation_params, image_tags, finalFile,
                   metaFile, tag_result, notLedger>>

\* api_unfavorite_image: DELETE FROM favorites WHERE image_id = ?
Unfavorite(id) ==
    /\ id \in favorites
    /\ favorites' = favorites \ {id}
    /\ UNCHANGED <<downloads, metadata_tbl, generation_params, image_tags, finalFile,
                   metaFile, tag_result, notLedger>>

\* api_delete_image: 404 unless downloads has the id; unlinks the image and its
\* metadata json, then deletes the id from all five tables and commits.
DeleteImage(id) ==
    /\ HasRow(id)
    /\ finalFile' = [finalFile EXCEPT ![id] = NoFile]
    /\ metaFile' = metaFile \ {id}
    /\ downloads' = downloads \ RowsOf(id)
    /\ generation_params' = generation_params \ {id}
    /\ image_tags' = image_tags \ {id}
    /\ metadata_tbl' = metadata_tbl \ {id}
    /\ favorites' = favorites \ {id}
    /\ UNCHANGED <<tag_result, notLedger>>

\* clear_database: DELETE FROM downloads, metadata, generation_params,
\* image_tags and tags, in one transaction of its own connection.
ClearDatabase ==
    /\ downloads # {}
    /\ downloads' = {}
    /\ metadata_tbl' = {}
    /\ generation_params' = {}
    /\ image_tags' = {}
    /\ UNCHANGED <<favorites, finalFile, metaFile, tag_result, notLedger>>

\* batch_fetch_missing_tags: SELECT image_id FROM downloads WHERE (tags_fetched IS
\* NULL OR tags_fetched = 0) AND status = 'success'.
NeedsTags(id) == \E r \in RowsOf(id) : r.status = "success" /\ ~r.tags_fetched

\* _fetch_image_tags: the tag list of the response, or [] when the request raised
\* requests.RequestException; any other exception leaves the function.
TagList(reply) ==
    IF reply = "tags" THEN {"tag"}
    ELSE IF reply \in {"empty", "network"} THEN {}
    ELSE {"raised"}

\* update_tags_for_image: "Mark as fetched (even if empty)", unless an exception
\* went to the except clause.
MarksFetched(tags) == tags # {"raised"}

\* One iteration of the loop of batch_fetch_missing_tags: update_tags_for_image
\* on a selected id.
UpdateTags(id) ==
    /\ NeedsTags(id)
    /\ \E reply \in {"tags", "empty", "network", "error"} :
          /\ tag_result' = [tag_result EXCEPT ![id] = reply]
          /\ image_tags' = IF TagList(reply) = {"tag"} THEN image_tags \cup {id}
                           ELSE image_tags
          /\ downloads' = IF MarksFetched(TagList(reply))
                            THEN {IF r.image_id = id THEN [r EXCEPT !.tags_fetched = TRUE]
                                  ELSE r : r \in downloads}
                            ELSE downloads
    /\ UNCHANGED <<metadata_tbl, generation_params, favorites, finalFile, metaFile,
                   notLedger>>

\* batch_fetch_missing_metadata: rows with status 'success' and no
\* generation_params row, except those whose metadata blob has meta null.
NeedsParams(id) ==
    /\ \E r \in RowsOf(id) : r.status = "success"
    /\ id \notin generation_params
    /\ ~(id \in metadata_tbl /\ ~ItemHasMeta(id))

\* One iteration of the loop of batch_fetch_missing_metadata on a selected id:
\* _store_generation_params when the item endpoint answers with a meta object
\* (any other answer writes nothing).
FetchMetadata(id) ==
    /\ NeedsParams(id)
    /\ generation_params' = generation_params \cup {id}
    /\ UNCHANGED <<downloads, metadata_tbl, image_tags, favorites, finalFile, metaFile,
                   tag_result, notLedger>>

\* One worker downloading one image with its metadata, beside the
\* operations above.
InitLedger ==
    InitWith({c \in Configs(0) : /\ c.workers = 1 /\ ~c.enable_retry /\ ~c.dry_run
                                 /\ c.save_metadata /\ c.allowed_types = AllowAll},
             {<<1>>})

LedgerOps ==
    \E id \in Ids :
        \/ Favorite(id)
        \/ Unfavorite(id)
        \/ DeleteImage(id)
        \/ UpdateTags(id)
        \/ FetchMetadata(id)

NextLedger ==
    \/ Next
    \/ LedgerOps
    \/ ClearDatabase

SpecLedger == InitLedger /\ [][NextLedger]_vars


\* ================================================================== claims
Satisfied(id) ==
    \E r \in downloads : r.image_id = id /\ r.status \in {"success", "migrated"}

\* C1: an attempt (download_image) on an identifier whose ledger record has status
\* 'success' or 'migrated' returns a skipped outcome, issues no network fetch,
\* creates or changes no file, leaves the ledger unchanged and increments only
\* the skipped counter, by one.
C1_SatisfiedIdIsSkipped ==
    [][\A t \in Tasks :
          (pc[t] = "check" /\ pc'[t] # "check" /\ Satisfied(IdOf(t)))
              => /\ pc'[t] = "done"
                 /\ result'[t] = [success |-> TRUE, status |-> "skipped (in database)",
                                  error |-> "none"]
                 /\ fetches' = fetches
                 /\ fsVars' = fsVars
                 /\ dbVars' = dbVars
                 /\ skipped_count' = skipped_count + 1
                 /\ downloaded_count' = downloaded_count
                 /\ failed_count' = failed_count
                 /\ filtered_type_count' = filtered_type_count]_vars

C1_Witness ==
    \E t \in Tasks :
        /\ result[t].status = "skipped (in database)"
        /\ \E r \in downloads : r.image_id = IdOf(t) /\ r.status = "migrated"
        /\ skipped_count >= 1

\* C2: re-running the pipeline on the same item set after a run in which every
\* item was downloaded produces no new download (no payload is fetched, the
\* downloaded counter stays 0) and a skipped count equal to the number of items.
C2_RerunIsIdempotent ==
    (run > 1 /\ prevAllDownloaded /\ mainPc = "returned")
        => /\ downloaded_count = 0
           /\ fetches = 0
           /\ skipped_count = Len(items)

C2_Witness ==
    /\ run = 2 /\ prevAllDownloaded /\ mainPc = "returned"
    /\ skipped_count = Len(items)
    /\ \E t \in Tasks : IdOf(t) # IdOf(1)


SameId(t, u) == t # u /\ IdOf(t) = IdOf(u)


\* C3: when two workers of a pool process the same identifier and one of them
\* downloads it, then afterwards at most one ledger row exists for it, the file
\* at the final path holds the whole payload, and the other worker, when its own
\* payload fetch went through, ended with a skipped outcome, not with a failure.
C3_DuplicateRaceEndsInSkip ==
    \A t, u \in Tasks :
        (SameId(t, u) /\ cfg.workers > 1 /\ pc[t] = "done" /\ pc[u] = "done"
            /\ result[t].status = "downloaded")
            => /\ Cardinality(RowsOf(IdOf(t))) <= 1
               /\ finalFile[IdOf(t)].exists /\ finalFile[IdOf(t)].data = Chunks
               /\ fetched[u] = "ok" => IsSkipped(lastStatus[u])

\* C4: the ledger holds at most one download row per identifier in every
\* reachable state, and each upsert leaves exactly its own row for its
\* identifier: the row of the upsert that took the ledger lock last.
C4_OneRowPerIdLastWriteWins ==
    /\ [](\A id \in Ids : Cardinality(RowsOf(id)) <= 1)
    /\ [][\A t \in Tasks :
             (pc[t] = "log_row" /\ pc'[t] # "log_row")
                 => /\ dbClock' = dbClock + 1
                    /\ {r \in downloads' : r.image_id = IdOf(t)}
                         = {Row(IdOf(t), "success", "none", size[t], dbClock')}]_vars

\* Two tasks on the same identifier both went through the upsert.
C4_Witness ==
    \E t, u \in Tasks :
        /\ SameId(t, u) /\ run = 1
        /\ result[t].status = "downloaded" /\ result[u].status = "skipped (exists)"
        /\ \E r \in downloads : r.image_id = IdOf(t) /\ r.download_timestamp = 2
        /\ Cardinality(RowsOf(IdOf(t))) = 1

\* A task takes db_lock in this step (existence check, upsert, params, tags).
LedgerStep(u) ==
    /\ pc[u] \in {"check", "dup_check", "log_row", "store_params", "store_tags"}
    /\ pc'[u] # pc[u]

\* C5: the ledger upsert of one item is atomic: between the write of its download
\* row and the writes of its generation parameters and tag links no other
\* task executes a ledger operation.
C5_UpsertIsAtomic ==
    [][\A t \in Tasks :
          pc[t] \in {"store_params", "store_tags"}
              => \A u \in Tasks \ {t} : ~LedgerStep(u)]_vars


\* The backoff sleeps after k failed attempts: backoff_factor^0 .. backoff_factor^(k-1).
Backoffs(k) == [i \in 1..k |-> BackoffFactor ^ (i - 1)]

SucceededStatus(status) ==
    status \in {"downloaded", "simulated", "skipped (in database)", "skipped (type)",
                "skipped (exists)"}

\* C6: when the first k attempts of a task fail and attempt k+1 succeeds
\* (k < max_retries), the retry wrapper returns that success and has slept exactly
\* k times, for backoff_factor^0, ..., backoff_factor^(k-1) seconds in that order.
C6_BackoffSchedule ==
    \A t \in Tasks :
        (cfg.enable_retry /\ SucceededStatus(lastStatus[t]))
            => /\ failures[t] < cfg.max_retries
               /\ attempt[t] = failures[t] + 1
               /\ pc[t] = "done"
               /\ result[t].success /\ result[t].status = lastStatus[t]
               /\ sleeps[t] = Backoffs(failures[t])

\* Two failed attempts, then a download, with max_retries = 3: sleeps of 1 and 2.
C6_Witness ==
    \E t \in Tasks :
        /\ cfg.max_retries = 3 /\ failures[t] = 2
        /\ result[t].status = "downloaded"
        /\ sleeps[t] = <<1, 2>>

\* C7: the retry wrapper makes at most max_retries attempts; a success or a
\* skipped outcome ends it at once, with no further sleep; when every attempt
\* failed it returns a failure that carries the last attempt's error text, having
\* slept only between attempts; and the batch returns only after every other
\* item has been processed as well.
C7_RetryIsBounded ==
    \A t \in Tasks :
        cfg.enable_retry =>
            /\ attempt[t] <= cfg.max_retries
            /\ attempt[t] <= failures[t] + 1
            /\ SucceededStatus(lastStatus[t])
                  => pc[t] = "done" /\ result[t].success /\ Len(sleeps[t]) = failures[t]
            /\ (pc[t] = "done" /\ ~result[t].success /\ cfg.max_retries >= 1)
                  => /\ attempt[t] = cfg.max_retries
                     /\ failures[t] = cfg.max_retries
                     /\ result[t].status = "failed after retries"
                     /\ result[t].error = lastStatus[t]
                     /\ Len(sleeps[t]) = cfg.max_retries - 1
            /\ (pc[t] = "done" /\ ~result[t].success /\ mainPc = "returned")
                  => \A u \in Tasks : pc[u] = "done" /\ result[u] # NoResult

\* All three attempts of one item failed and the other item was downloaded.
C7_Witness ==
    \E t, u \in Tasks :
        /\ cfg.max_retries = 3 /\ failures[t] = 3 /\ pc[t] = "done"
        /\ result[t].error = "error: empty file"
        /\ t < u /\ result[u].status = "downloaded"
        /\ mainPc = "returned"


\* The payload of the task's image sniffs to an extension outside the allow-list.
SniffedTypeExcluded(t) ==
    /\ cfg.allowed_types # AllowAll
    /\ DetectImageFormat(Signature(IdOf(t))).ext \notin cfg.allowed_types

\* C8: when an allow-list is configured and the sniffed extension of a fetched
\* payload is not in it, the attempt ends as 'skipped (filtered by type)': the
\* temp file is deleted, no file is placed, no ledger row is created, the
\* filtered counter grows by one and the other three counters do not change.
C8_TypeFilterSkips ==
    [][\A t \in Tasks :
          (pc[t] = "closed" /\ hpos[t] > 0 /\ SniffedTypeExcluded(t) /\ pc'[t] # "closed")
              => /\ lastStatus'[t] = "skipped (type)"
                 /\ pc'[t] = "done"
                 /\ ~tempFile'[IdOf(t)].exists
                 /\ finalFile' = finalFile
                 /\ downloads' = downloads
                 /\ filtered_type_count' = filtered_type_count + 1
                 /\ downloaded_count' = downloaded_count
                 /\ skipped_count' = skipped_count
                 /\ failed_count' = failed_count]_vars

Failed(status) == status \in {"error: network", "error: empty file", "error: fs"}

\* C9: once the first attempt on an item has ended, the ledger holds a download
\* record for its identifier: with status 'success' when the attempt downloaded
\* the item, with status 'failed' and the error text when the attempt failed.
C9_FirstAttemptIsRecorded ==
    \A t \in Tasks :
        /\ lastStatus[t] = "downloaded"
              => \E r \in RowsOf(IdOf(t)) : r.status = "success"
        /\ Failed(lastStatus[t])
              => \E r \in RowsOf(IdOf(t)) :
                     r.status = "failed" /\ r.error_message = lastStatus[t]

\* C10: once the stop flag is set (running = False) during a batch, no item of
\* the batch that has not started its attempt is started any more.
C10_NoStartAfterStop ==
    [][~running => \A t \in Tasks : pc[t] = "queued" => pc'[t] = "queued"]_vars


\* C11: while the pause flag is set, no worker starts a new item: an item of
\* the batch that has not started stays queued until the flag is cleared.
C11_PausedWorkersBlock ==
    [][paused => \A t \in Tasks : pc[t] = "queued" => pc'[t] = "queued"]_vars


\* A page request is issued in this step.
PageFetched == request' # request

\* C12: pages are processed strictly sequentially: outside _download_batch no
\* task of the page is running or queued, also after the batch loop was left
\* early on a stop signal, and whenever the driver issues a page request every
\* task of the earlier pages has finished.
C12_NoWorkCrossesPages ==
    /\ [](drv # "batch" => \A t \in Tasks : pc[t] = "done")
    /\ [][PageFetched => \A t \in Tasks : pc[t] = "done"]_vars

\* C12 witness: the second page has been requested and handed to the pool.
C12_Witness ==
    /\ request.cursor # 0
    /\ drv = "batch"
    /\ \E t \in Tasks : pc[t] \notin {"queued", "done"}

\* C13: for every finite remote listing whose last page carries no nextCursor
\* and every filter setting, a run that receives no stop signal eventually
\* reaches its terminal state.
C13_RunTerminates == <>(drv = "done")

\* C14: after the stop flag is set (running = False) the driver issues no
\* further page request.
C14_NoFetchAfterStop ==
    [][~running => ~PageFetched]_vars

TargetReached == ~opts.endless /\ downloaded_count >= opts.max_images

\* C15: in limited mode, once downloaded_count has reached max_images, no page
\* is requested, no batch is handed to the pool, no item is waiting to be
\* started, and the driver leaves the page loop at its limit test.
C15_TargetEndsRun ==
    /\ [](TargetReached => \A t \in Tasks : pc[t] # "queued")
    /\ [][TargetReached =>
            /\ ~PageFetched
            /\ (drv' = "batch" => drv = "batch")
            /\ (drv = "fetch" /\ drv' # "fetch" => drv' = "finally")]_vars

\* C15 witness: the run ended at the limit test with more pages available.
C15_Witness ==
    /\ drv = "done"
    /\ exit = "target"
    /\ cursor # 0
    /\ downloaded_count = opts.max_images

\* C16: a failed page fetch ends the run gracefully: the driver leaves the page
\* loop for the final statistics, nothing of that page is handed to the pool,
\* no page is requested afterwards, and scrape() returns without an exception.
C16_FetchFailureEndsRun ==
    /\ [](~request.ok => /\ drv \in {"finally", "done"}
                         /\ exit = "fetch_error"
                         /\ pending = "none")
    /\ [][(PageFetched /\ ~request'.ok) => (items' = items /\ pc' = pc)]_vars
    /\ [][~request.ok => ~PageFetched]_vars

\* C16 witness: the fetch of the second page failed and the run has ended.
C16_Witness ==
    /\ ~request.ok
    /\ request.cursor # 0
    /\ drv = "done"

C18_LevelInRange ==
    /\ rpc = "converted" => conv.level \in 0..6
    /\ rpc = "logged" /\ ~nsfw_level.null => nsfw_level.level \in 0..6

\* The level the spec gives each of the six labels.
LabelLevel(x) ==
    CASE x = "None" -> 0 [] x = "Soft" -> 1 [] x = "Mature" -> 2
      [] x = "Mature+" -> 4 [] x = "X" -> 5 [] x = "XXX" -> 6

\* C19 as stated: the six labels map to 0, 1, 2, 4, 5, 6 and every string that
\* is not one of the six labels maps to 0 with a warning.
C19_LabelsElseZero ==
    (rpc = "converted" /\ conv.raw.kind = "str") =>
        IF conv.raw.str \in Labels
          THEN conv.level = LabelLevel(conv.raw.str) /\ ~conv.warned
          ELSE conv.level = 0 /\ conv.warned

\* A string the normalization neither reads as a number nor finds among the
\* labels, whatever its letter case.
Unrecognized(x) == ~IsIntLiteral(x) /\ \A l \in Labels : Upper(x) # Upper(l)

\* C19 amended: the six labels, compared without regard to letter case, map to
\* 0, 1, 2, 4, 5, 6 without a warning; a string that is neither such a label
\* nor an integer literal maps to 0 with a warning; an integer literal is
\* handled as a number and records no warning.
C19_LabelsIgnoringCaseElseZero ==
    (rpc = "converted" /\ conv.raw.kind = "str") =>
        /\ \A l \in Labels :
              Upper(conv.raw.str) = Upper(l) => conv.level = LabelLevel(l) /\ ~conv.warned
        /\ Unrecognized(conv.raw.str) => conv.level = 0 /\ conv.warned
        /\ IsIntLiteral(conv.raw.str) => ~conv.warned

\* C19 witness: an unrecognized string has been normalized to 0 with a warning.
C19_Witness ==
    /\ rpc = "converted"
    /\ conv.raw = JStr("Foo")
    /\ conv.level = 0
    /\ conv.warned

\* The rating of a descriptor: its numeric level when it has one, else its label.
DescriptorLevel ==
    IF item.nsfwLevel.kind # "none" THEN ConvertNsfwToLevel(item.nsfwLevel).level
    ELSE ConvertNsfwToLevel(item.nsfw).level

\* The descriptor's two rating fields do not disagree: one of them is absent
\* or both normalize to the same level.
Consistent ==
    \/ item.nsfwLevel.kind = "none"
    \/ item.nsfw.kind = "none"
    \/ ConvertNsfwToLevel(item.nsfwLevel).level = ConvertNsfwToLevel(item.nsfw).level

\* C20: with organization by rating enabled the file goes to the bucket of the
\* descriptor's rating (SFW for level 0 or 1, NSFW above), images under the
\* base directory and videos under the videos tree, for every setting of
\* save_metadata; with organization disabled the flat directory is used.
\* Stated for descriptors whose two rating fields do not disagree.
C20_RoutedByRating ==
    (rpc \in {"placed", "logged"} /\ Consistent) =>
        /\ filepath.tree = IF item.is_video THEN "videos" ELSE "base"
        /\ filepath.folder =
              IF ~ropts.organize_by_nsfw THEN "flat"
              ELSE IF DescriptorLevel <= 1 THEN "SFW" ELSE "NSFW"


\* The rules of the format table in their documented order: what a chunk has to
\* hold for the rule to match, and the pair the rule gives.
SniffRules == 1..7
RuleMatches(k, data) ==
    CASE k = 1 -> /\ Len(data) = 5
                  /\ data[3] = "ft" /\ data[4] = "yp" /\ data[5] \in {"mp42", "isom"}
      [] k = 2 -> Len(data) >= 2 /\ data[1] = "1A45DF" /\ data[2] = "A3"
      [] k = 3 -> Len(data) >= 1 /\ data[1] = "FLV"
      [] k = 4 -> /\ Len(data) >= 4
                  /\ data[1] = "89504E" /\ data[2] = "47"
                  /\ data[3] = "0D0A" /\ data[4] = "1A0A"
      [] k = 5 -> Len(data) >= 1 /\ data[1] = "FFD8FF"
      [] k = 6 -> /\ Len(data) >= 4
                  /\ data[1] = "RIF" /\ data[2] = "F"
                  /\ \/ data[3] = "WE" /\ data[4] = "BP"
                     \/ Len(data) = 5 /\ data[5] = "WEBP"
      [] k = 7 -> /\ Len(data) >= 3
                  /\ data[1] = "GIF" /\ data[2] = "8" /\ data[3] \in {"7a", "9a"}
RuleResult ==
    <<[ext |-> "mp4", is_video |-> TRUE], [ext |-> "webm", is_video |-> TRUE],
      [ext |-> "flv", is_video |-> TRUE], [ext |-> "png", is_video |-> FALSE],
      [ext |-> "jpg", is_video |-> FALSE], [ext |-> "webp", is_video |-> FALSE],
      [ext |-> "gif", is_video |-> FALSE]>>
Matching(data) == {k \in SniffRules : RuleMatches(k, data)}

\* C21: the classification of a chunk is the pair of the first rule of the
\* documented order (MP4/ISO at bytes 4..12, Matroska/WebM, FLV, PNG, JPEG,
\* RIFF/WEBP, GIF87a/GIF89a) that matches it, and ('.jpg', not a video) when no
\* rule matches.
C21_FirstMatchingRule ==
    detected # NoDetection =>
        IF Matching(first_chunk) = {}
          THEN detected = [ext |-> "jpg", is_video |-> FALSE]
          ELSE \E k \in Matching(first_chunk) :
                  /\ \A j \in Matching(first_chunk) : k <= j
                  /\ detected = RuleResult[k]

\* A chunk that begins like a JPEG and carries ftypmp42 at bytes 4..12 has been
\* classified, as an MP4 video.
C21_Witness ==
    /\ detected = [ext |-> "mp4", is_video |-> TRUE]
    /\ {1, 5} \subseteq Matching(first_chunk)

\* The steps of an attempt after it found a file at the final path: the test of
\* the ledger and, when the id is not satisfied, the three ledger writes.
OnExistsPath(t) ==
    \/ pc[t] = "dup_check"
    \/ pc[t] \in {"log_row", "store_params", "store_tags"} /\ via[t] = "exists"

\* The attempt of task t finds a file at the final path: the payload is not
\* empty, its type is allowed, and filepath.exists() holds.
FindsExisting(t) ==
    /\ pc[t] = "closed"
    /\ hpos[t] > 0
    /\ ~FilteredByType(DetectImageFormat(Signature(IdOf(t))).ext)
    /\ finalFile[IdOf(t)].exists

\* C22: an attempt that finds a file at the computed final path deletes its
\* temp file, leaves the existing file untouched, returns 'skipped (exists)'
\* (counted as skipped) and leaves a 'success' or 'migrated' record of the id
\* in the ledger, written by the attempt when there was none.
C22_ExistingFileIsSkipped ==
    [][\A t \in Tasks :
          /\ (FindsExisting(t) /\ pc'[t] # "closed")
                => /\ ~tempFile'[IdOf(t)].exists
                   /\ finalFile' = finalFile
                   /\ pc'[t] = "dup_check"
          /\ (OnExistsPath(t) /\ pc'[t] # pc[t])
                => /\ finalFile' = finalFile
                   /\ \/ OnExistsPath(t)'
                      \/ /\ lastStatus'[t] = "skipped (exists)"
                         /\ skipped_count' = skipped_count + 1
                         /\ Satisfied(IdOf(t))'
                         /\ ~Satisfied(IdOf(t)) =>
                               \E r \in downloads' : /\ r.image_id = IdOf(t)
                                                     /\ r.status = "success"]_vars

\* An earlier attempt on the id of task t, by t or by another task of the
\* batch, ended with a ledger error.
LedgerFailedFor(t) ==
    \E u \in Tasks : IdOf(u) = IdOf(t) /\ lastStatus[u] = "error: db"

\* The file of task t's id is placed and the ledger has no satisfied row for it.
PlacedWithoutRow(t) == finalFile[IdOf(t)].exists /\ ~Satisfied(IdOf(t))

\* C23: a ledger write that fails during an attempt ends that attempt with a
\* failure outcome carrying the error and touches nothing else of the run:
\* the dispatcher, the flags and the other tasks go on.  Where the failure left
\* a placed file without a ledger row, the next attempt on the id is not
\* skipped by the ledger, finds the file after its fetch, takes the file-exists
\* path and, unless a ledger write fails again, ends as 'skipped (exists)' with
\* a 'success' row of the id in the ledger.
C23_LedgerFailureIsRecovered ==
    [][\A t \in Tasks :
          /\ (pc[t] = "except" /\ exc[t] = "db" /\ pc'[t] # "except")
                => /\ lastStatus'[t] = "error: db"
                   /\ failed_count' = failed_count + 1
                   /\ pc'[t] \in {"check", "done"}
                   /\ result'[t].status \in {"pending", "error: db", "failed after retries"}
                   /\ \A u \in Tasks \ {t} : pc'[u] = pc[u]
                   /\ UNCHANGED <<mainVars, flagVars, dbVars, finalFile, metaFile>>
          /\ (LedgerFailedFor(t) /\ PlacedWithoutRow(t))
                => /\ (pc[t] = "check" /\ pc'[t] # "check") => pc'[t] = "fetch"
                   /\ (FindsExisting(t) /\ pc'[t] # "closed") => pc'[t] = "dup_check"
                   /\ (pc[t] = "dup_check" /\ pc'[t] # "dup_check")
                         => pc'[t] = "log_row" /\ via'[t] = "exists"
          /\ (LedgerFailedFor(t) /\ OnExistsPath(t) /\ pc'[t] # pc[t])
                => \/ OnExistsPath(t)'
                   \/ pc'[t] = "except" /\ exc'[t] = "db"
                   \/ /\ lastStatus'[t] = "skipped (exists)"
                      /\ result'[t].status = "skipped (exists)"
                      /\ \E r \in downloads' : r.image_id = IdOf(t) /\ r.status = "success"]_vars

\* The file of an image was placed by this execution (its metadata json was
\* written with it), the ledger write failed and left no row, and the retry
\* ended as 'skipped (exists)' with the row written.
C23_Witness ==
    \E t \in Tasks :
        /\ cfg.save_metadata /\ IdOf(t) \in metaFile
        /\ last_error[t] = "error: db"
        /\ Len(sleeps[t]) >= 1
        /\ result[t].status = "skipped (exists)"
        /\ \E r \in downloads : r.image_id = IdOf(t) /\ r.status = "success"
        /\ mainPc = "returned"

\* A call of download_image by task t returns to its caller in this step.
AttemptReturns(t) ==
    /\ pc[t] \notin {"queued", "done"}
    /\ pc'[t] \in {"check", "done"}
    /\ pc'[t] # pc[t]

\* C24: with a single worker, whenever an attempt returns, with whatever
\* outcome, no temp file of its item remains; an exception raised inside the
\* attempt is caught and gives a failure outcome that carries the error text.
C24_NoTempFileAfterAttempt ==
    [][\A t \in Tasks :
          AttemptReturns(t) =>
              /\ ~tempFile'[IdOf(t)].exists
              /\ pc[t] = "except" =>
                    /\ lastStatus'[t] =
                          (IF exc[t] = "network" THEN "error: network"
                           ELSE IF exc[t] = "db" THEN "error: db" ELSE "error: fs")
                    /\ failures'[t] = failures[t] + 1
                    /\ failed_count' = failed_count + 1]_vars

\* An attempt whose payload stream broke has returned its failure, and the
\* temp file it had opened is gone.
C24_Witness ==
    \E t \in Tasks :
        /\ cfg.workers = 1
        /\ pc[t] = "done"
        /\ lastStatus[t] = "error: network"
        /\ fetched[t] = "failed"
        /\ ~tempFile[IdOf(t)].exists

CompletedCalls(t) ==
    IF pc[t] = "queued" THEN 0
    ELSE IF pc[t] = "done" THEN attempt[t]
    ELSE attempt[t] - 1

RECURSIVE CallsUpTo(_)
CallsUpTo(n) == IF n = 0 THEN 0 ELSE CompletedCalls(n) + CallsUpTo(n - 1)

CounterSum == downloaded_count + skipped_count + failed_count + filtered_type_count

\* C26: no counter update is lost or doubled: after N calls of download_image,
\* in any interleaving of the workers, the downloaded, skipped, failed and
\* filtered counters sum to their initial sum (zero) plus N.
C26_CountersSumToAttempts ==
    CounterSum = CallsUpTo(Len(items))

\* C27: opening the ledger succeeds on a fresh store and on a store of an older
\* schema that lacks folder_path, tags_fetched or reaction_total; after the
\* open the three columns exist; and a further open succeeds and leaves schema
\* and records as the first open left them.
C27_OpenSucceedsAndIsIdempotent ==
    /\ init_db.state # "raised"
    /\ init_db.state = "ok" => AddedColumns \subseteq schema.columns
    /\ (init_db.state = "ok" /\ init_db.opens > 1) => Snapshot = init_db.first

\* A width or height that is present but is no integer: int() rejects it.
Unparseable(v) == v.kind = "str" /\ ~IsIntLiteral(v.str)

\* The side an item declares; an absent or null side declares nothing.
DeclaredSide(v) ==
    IF v.kind = "int" THEN v.int
    ELSE IF v.kind = "str" /\ IsIntLiteral(v.str) THEN IntOfLiteral(v.str)
    ELSE 0

\* C28: the minimum-resolution filter keeps exactly the items whose longer
\* declared side is at least the threshold; an item whose width or height
\* cannot be parsed as an integer is dropped.
C28_KeepsLongerSideAtLeast ==
    (verdict.stage = "sized" /\ ~filters.nsfw_only /\ filters.min_resolution # 0) =>
        (verdict.kept <=>
            /\ ~Unparseable(page_item.width)
            /\ ~Unparseable(page_item.height)
            /\ Max(DeclaredSide(page_item.width), DeclaredSide(page_item.height))
                  >= filters.min_resolution)

\* The normalized level of a page item: that of its nsfwLevel when it has one,
\* else that of its nsfw label.
NormalizedLevel(it) ==
    IF it.nsfwLevel.kind # "none" THEN ConvertNsfwToLevel(it.nsfwLevel).level
    ELSE ConvertNsfwToLevel(it.nsfw).level

\* The two rating fields of a page item do not disagree: one of them is
\* absent or both normalize to the same level.
Agreeing(it) ==
    \/ it.nsfwLevel.kind = "none"
    \/ it.nsfw.kind = "none"
    \/ ConvertNsfwToLevel(it.nsfwLevel).level = ConvertNsfwToLevel(it.nsfw).level

\* C29: the rating-only filter keeps exactly the items whose normalized level
\* is 5 or 6.  Stated for items whose two rating fields do not disagree.
C29_KeepsLevelFiveAndSix ==
    (verdict.stage = "rated" /\ filters.nsfw_only /\ Agreeing(page_item)) =>
        (verdict.kept <=> NormalizedLevel(page_item) \in {5, 6})

\* C30: for an item that carries both a numeric nsfwLevel and an nsfw label,
\* the nsfwLevel gives the stored level and the folder bucket, for every value
\* including 0; the label gives them only when nsfwLevel is absent.
C30_LevelFieldDecides ==
    (rpc = "logged" /\ metadata.present /\ item.nsfw.kind = "str") =>
        /\ item.nsfwLevel.kind = "int" =>
              /\ nsfw_level = [null |-> FALSE, level |-> item.nsfwLevel.int]
              /\ ropts.organize_by_nsfw =>
                    filepath.folder = IF item.nsfwLevel.int <= 1 THEN "SFW" ELSE "NSFW"
        /\ item.nsfwLevel.kind = "none" =>
              /\ nsfw_level = [null |-> FALSE,
                               level |-> ConvertNsfwToLevel(item.nsfw).level]
              /\ ropts.organize_by_nsfw =>
                    filepath.folder = GetNsfwFolder(item.nsfw)

\* C31: once _download_batch has returned, every item it dispatched has added
\* exactly one to downloaded + skipped + failed + filtered, so the printed
\* "total processed" is the number of items dispatched, retried items included.
\* Stated for max_retries >= 1, where every item is attempted.
C31_EveryItemCountsOnce ==
    (mainPc = "returned" /\ (cfg.enable_retry => cfg.max_retries >= 1))
        => CounterSum = Len(items)

C33_CursorAlwaysAdvances ==
    [][(request' # request /\ request # NoRequest) =>
          /\ request'.cursor = ApiPage(request.cursor, request.limit).next
          /\ request'.cursor # request.cursor]_vars

\* C34: every item dispatched with retry enabled is attempted at least once,
\* whatever max_retries is (0 included), and the wrapper returns a failure only
\* after an attempt of the item has failed and incremented failed_count.
C34_AttemptedBeforeFailure ==
    \A t \in Tasks :
        (cfg.enable_retry /\ pc[t] = "done") =>
            /\ attempt[t] >= 1
            /\ ~result[t].success => (failures[t] >= 1 /\ failed_count >= 1)

\* C35: a pause wait ends when the stop flag is set: once the thread that runs
\* scrape() spins in check_pause (called from the page loop or from the
\* as_completed loop) and running has been cleared, it leaves the spin loop and
\* the run terminates; no resume is needed.
C35_StopEndsPause ==
    ((drv = "pause" \/ (drv = "batch" /\ mainPc = "paused")) /\ ~running)
        ~> (drv = "done")

\* The page loop left its pause without a key press: paused is still set when
\* the limit test is reached, and the stop flag is what ended the wait.
C35_Witness ==
    drv = "fetch" /\ paused /\ ~running

\* C36: in the web front-end at most one download session thread is executing at
\* any time, whatever the sequence of start and stop requests: a start is
\* accepted only when no thread started earlier is still executing.
C36_AtMostOneSession ==
    Cardinality(Executing) <= 1

\* C37: a stop request accepted while a download session is in progress clears
\* the running flag of the scraper that executes the session, at whatever point
\* of the session's start-up it arrives, so the session ends; and it never
\* clears the running flag of the browsing scraper.
C37_StopReachesSession ==
    /\ [](scrapers[0].running)
    /\ \A s \in Sessions : (s \in stop_seen) ~> (threads[s].pc = "done")


\* C38: after any sequence of ledger operations (upsert, tag and parameter
\* storage, favorite and unfavorite, web delete of an image, clear_database),
\* every row of metadata, generation_params, image_tags and favorites refers to
\* an identifier that has a row in downloads.
C38_LedgerReferencesResolve ==
    \A id \in metadata_tbl \cup generation_params \cup image_tags \cup favorites :
        HasRow(id)

\* C39: an image is marked tags_fetched only after its tag request succeeded: an
\* image whose latest tag request failed with a network error is not marked and
\* is still selected by batch_fetch_missing_tags.
C39_MarkedOnlyAfterSuccess ==
    \A id \in Ids : \A r \in RowsOf(id) :
        /\ r.tags_fetched => tag_result[id] \in {"tags", "empty"}
        /\ (r.status = "success" /\ tag_result[id] = "network") => NeedsTags(id)
====
